---- MODULE Spec2Model ----
(***************************************************************************)
(* A model of the EmphasisDashboard analytics core.                        *)
(*                                                                         *)
(*   PcrTableClient    (src/unnamed/part_001): the PCR poll `load`, the    *)
(*                     history buffer `mergeIncomingRows`, the 3m / 5m     *)
(*                     window sampler effect.                              *)
(*   OptionChainClient (src/unnamed/part_000): the option-chain poll       *)
(*                     `tick`, the per-leg highlight computation and the   *)
(*                     setHighlights merge, the live-price refresh         *)
(*                     `loadLtp` and the clean-up of the effects.          *)
(*                                                                         *)
(* Numbers are fixed-point with two decimals: the integer n stands for the *)
(* JavaScript number n/100 (60 is 0.6, 115 is 1.15).  Timestamps are       *)
(* integer milliseconds.                                                   *)
(***************************************************************************)
EXTENDS Integers, Sequences, FiniteSets, TLC

VARIABLES
    \* ---- PcrTableClient (part_001) ----
    data,               \* useState<PcrResponse | null>: the last applied response
    historyRows,        \* useState<DisplayRow[]>: the history buffer
    error,              \* useState<string | null>
    pcr3mSeries,        \* useState<PcrSamplePoint[]>
    pcr5mSeries,        \* useState<PcrSamplePoint[]>
    last3mSampleAtRef,  \* useRef<number | null>
    last5mSampleAtRef,  \* useRef<number | null>
    pcrInflight,        \* requests of `load` awaiting their response, oldest first
    clock,              \* the value Date.now() returned last
    \* ---- OptionChainClient (part_000) ----
    chainData,          \* useState<OptionChainData>: the chain of the shown snapshot
    prevChainData,      \* useRef<any[]>: the chain the next tick diffs against
    highlights,         \* useState<Record<string, {call?, put?}>>
    chainInflight,      \* requests of `tick` awaiting their response, oldest first
    nextCallHighlights, \* the call marks computed by the last completed tick
    nextPutHighlights,  \* the put marks computed by the last completed tick
    lastTick,           \* how the last completed tick ended: "none", "applied", "failed"
    thresholdEnv,       \* process.env.NEXT_PUBLIC_OI_CHANGE_THRESHOLD_PCT
    \* PcrTableClient, the analytics
    analyticsView,      \* useMemo: the analytics of the last render that recomputed them
    signalJournal,      \* useState<JournalEntry[]>, newest first
    lastJournalKeyRef,  \* useRef<string | null>: the key of the last journalled view
    clockOriginIst,     \* the minute of the day in Asia/Kolkata at the clock reading 0
    legacyTrend,        \* useMemo pcrTrendViews of src/frontend/src/app/PcrTableClient.tsx
    \* ---- the life of the two components and the live price (part_000) ----
    pcrMounted,         \* PcrTableClient is mounted: its effects have not been cleaned up
    chainMounted,       \* OptionChainClient is mounted
    activeExpiry,       \* useState<string>(initialData.expiry)
    lastLtpAt,          \* useState(0)
    ltpInflight,        \* fetches of `loadLtp` awaiting their response, oldest first
    liveData,           \* data.underlying and data.vix of OptionChainClient
    ltpClock,           \* Date.now() on the page of the option chain
    ltpTimerAt,         \* when setInterval(loadLtp, 10000) fires next; Null: cleared
    ltpFetchedAt        \* when the last live-price fetch was started; Null: never

pcrVars == <<data, historyRows, error, pcr3mSeries, pcr5mSeries,
             last3mSampleAtRef, last5mSampleAtRef, pcrInflight, clock>>
chainVars == <<chainData, prevChainData, highlights, chainInflight,
               nextCallHighlights, nextPutHighlights, lastTick, thresholdEnv>>
analyticsVars == <<analyticsView, signalJournal, lastJournalKeyRef, clockOriginIst,
                   legacyTrend>>
lifeVars == <<pcrMounted, chainMounted, activeExpiry, lastLtpAt, ltpInflight,
              liveData, ltpClock, ltpTimerAt, ltpFetchedAt>>
vars == <<pcrVars, chainVars, analyticsVars, lifeVars>>

----------------------------------------------------------------------------
(* Bounds of the model.                                                    *)

\* requests one poll may have in flight at once
MaxInflight == 2
\* longest `records` array a PCR response carries
MaxBatch == 3
\* HISTORY_MAX_ROWS is 10000 in the source; the model runs the same code with a small cap
HISTORY_MAX_ROWS == 2
\* MAX_ROWS is 5 in the source; the model runs the same code with a small slice
MAX_ROWS == 2
\* MAX_PCR_SAMPLES is 600 in the source; the model runs the same code with a small cap
MAX_PCR_SAMPLES == 2
\* the cap of the signal journal (14 in the source)
MAX_JOURNAL_ROWS == 2
\* the number of ratio points the regime looks at (20 in the source)
RegimeWindow == 4

THREE_MIN_MS == 3 * 60 * 1000
FIVE_MIN_MS == 5 * 60 * 1000

\* the readings Date.now() may return
ClockValues == {0, THREE_MIN_MS, FIVE_MIN_MS, THREE_MIN_MS + FIVE_MIN_MS}

----------------------------------------------------------------------------
(* JavaScript values of record fields.                                     *)

Undefined == [type |-> "undefined", num |-> 0, str |-> ""]
Num(n) == [type |-> "number", num |-> n, str |-> ""]
Str(s) == [type |-> "string", num |-> 0, str |-> s]
\* null and true, as a body of the API may carry them in a field
JsNull == [type |-> "null", num |-> 0, str |-> ""]
JsTrue == [type |-> "boolean", num |-> 0, str |-> ""]

\* null, for an optional number
Null == -1000000

Abs(x) == IF x < 0 THEN -x ELSE x

\* x ?? 0
OrZero(x) == IF x = Null THEN 0 ELSE x

LastN(n, s) == IF Len(s) <= n THEN s ELSE SubSeq(s, Len(s) - n + 1, Len(s))

Digit(d) == ToString(d)

\* String(x) of a number with at most two decimals: 60 -> "0.6", 125 -> "1.25", 100 -> "1"
NumberToString(n) ==
    LET a == IF n < 0 THEN -n ELSE n
        whole == a \div 100
        frac == a % 100
        sign == IF n < 0 THEN "-" ELSE ""
    IN  sign \o ToString(whole) \o
        (IF frac = 0 THEN ""
         ELSE IF frac % 10 = 0 THEN "." \o Digit(frac \div 10)
         ELSE "." \o Digit(frac \div 10) \o Digit(frac % 10))

\* String(row[h] ?? "")
FieldString(v) ==
    IF v.type = "undefined" THEN ""
    ELSE IF v.type = "string" THEN v.str
    ELSE NumberToString(v.num)

\* Number(s) on the strings the model feeds (none of them has a comma); Null is NaN
NumberOfString(s) ==
    CASE s = "" -> 0
      [] s = " " -> 0
      [] s = "1" -> 100
      [] s = "0.6" -> 60
      [] s = "0.60" -> 60
      [] s = "0.80" -> 80
      [] s = "-100" -> -10000
      [] s = "50" -> 5000
      [] OTHER -> Null

\* a string that is empty after trim()
IsBlank(s) == s \in {"", " "}

toNumeric(value) ==
    IF value.type = "number" THEN value.num
    ELSE IF value.type = "string" THEN NumberOfString(value.str)
    ELSE Null

----------------------------------------------------------------------------
(* PcrTableClient: records and the history buffer.                         *)

TREND_SOURCE == "ALL Change OI PCR"

\* "(+-2)" stands for the source's "(±2)"
headers == << "Time", "PE Total OI Change", "CE Total OI Change",
              "PE OI Change (+-2)", "CE OI Change (+-2)",
              "ALL Change OI PCR", "Current Change OI PCR", "Current All OI PCR" >>

HeaderSet == {headers[i] : i \in 1..Len(headers)}

RECURSIVE JoinFrom(_, _)
JoinFrom(row, i) ==
    IF i > Len(headers) THEN ""
    ELSE (IF i = 1 THEN "" ELSE "|") \o FieldString(row[headers[i]]) \o JoinFrom(row, i + 1)

buildRowKey(row) == JoinFrom(row, 1)

\* a record of the API: the eight header fields, Undefined where the field is missing
PcrRecordFlow(time, pcr, peChg, ceChg) ==
    [h \in HeaderSet |->
        IF h = "Time" THEN time
        ELSE IF h = TREND_SOURCE THEN pcr
        ELSE IF h = "PE OI Change (+-2)" THEN peChg
        ELSE IF h = "CE OI Change (+-2)" THEN ceChg
        ELSE IF h = "PE Total OI Change" THEN Str("3 Cr")
        ELSE IF h = "CE Total OI Change" THEN Str("2 Cr")
        ELSE Num(100)]

\* a record whose two OI-flow legs are close to each other
PcrRecord(time, pcr) == PcrRecordFlow(time, pcr, Str("1.2 L"), Str("1.1 L"))

\* the records the data source may send
RecHistA == PcrRecord(Str("09:15"), Num(60))
\* RecHistA at another Time
RecHistB == PcrRecord(Str("09:18"), Num(60))
RecHistC == PcrRecord(Str("09:18"), Str("0.80"))
\* the ratio is missing
RecNoRatio == PcrRecord(Str("09:21"), Undefined)
\* a ratio of 1 at two Times, and sent as a string: another row, the same key
RecFlatA == PcrRecord(Str("09:15"), Num(100))
RecFlatB == PcrRecord(Str("09:18"), Num(100))
RecSameKeyA == PcrRecord(Str("09:15"), Str("1"))

\* the ratio is an empty string, a blank string, a text
RecEmptyRatio == PcrRecord(Str("09:24"), Str(""))
RecBlankRatio == PcrRecord(Str("09:27"), Str(" "))
RecTextRatio == PcrRecord(Str("09:30"), Str("abc"))

RecordPool == {RecHistA, RecHistB, RecHistC}

\* the records the window sampler is fed: their ratio gives no signal to journal
SamplerPool == {RecFlatA, RecFlatB, RecSameKeyA, RecNoRatio}

RECURSIVE SeqsUpTo(_, _)
SeqsUpTo(S, n) ==
    IF n = 0 THEN {<<>>}
    ELSE LET shorter == SeqsUpTo(S, n - 1)
         IN  shorter \cup {Append(s, x) : s \in {t \in shorter : Len(t) = n - 1}, x \in S}

Batches == SeqsUpTo(RecordPool, MaxBatch)

KeysOf(rows) == {rows[i].key : i \in 1..Len(rows)}

\* mutant of IncomingOrdered: slice(0, MAX_ROWS), the oldest rows of the batch
IncomingOrderedHead(incomingRecords) ==
    SubSeq(incomingRecords, 1,
           IF Len(incomingRecords) < MAX_ROWS THEN Len(incomingRecords) ELSE MAX_ROWS)

\* incomingRecords.slice(-MAX_ROWS)
IncomingOrdered(incomingRecords) == LastN(MAX_ROWS, incomingRecords)

\* mutant of IsSeen: the membership test is lost
IsSeenNever(previousKeys, key) == FALSE

\* previousKeys.has(key)
IsSeen(previousKeys, key) == key \in previousKeys

\* mutant of AddKey: the key of an appended row is not remembered
AddKeyForgotten(previousKeys, key) == previousKeys

\* previousKeys.add(key)
AddKey(previousKeys, key) == previousKeys \cup {key}

\* seenAt: now + offsetMs
SeenAt(now, offsetMs) == now + offsetMs

\* mutant of TruncateHistory: slice(0, HISTORY_MAX_ROWS), the newest rows are cut
TruncateHistoryHead(merged) ==
    SubSeq(merged, 1, IF Len(merged) < HISTORY_MAX_ROWS THEN Len(merged)
                      ELSE HISTORY_MAX_ROWS)

\* merged.slice(-HISTORY_MAX_ROWS)
TruncateHistory(merged) == LastN(HISTORY_MAX_ROWS, merged)

\* the for loop of mergeIncomingRows, from element i of incomingOrdered on
RECURSIVE MergeLoop(_, _, _, _, _, _)
MergeLoop(incomingOrdered, i, previousKeys, merged, now, offsetMs) ==
    IF i > Len(incomingOrdered) THEN merged
    ELSE LET row == incomingOrdered[i]
             key == buildRowKey(row)
         IN  IF IsSeen(previousKeys, key)
             THEN MergeLoop(incomingOrdered, i + 1, previousKeys, merged, now, offsetMs)
             ELSE MergeLoop(incomingOrdered, i + 1, AddKey(previousKeys, key),
                            Append(merged, [key |-> key, row |-> row,
                                            seenAt |-> SeenAt(now, offsetMs)]),
                            now, offsetMs + 1)

\* mutant of mergeIncomingRows: a record delivered again refreshes the arrival
\* timestamp of the stored record with its key
mergeIncomingRowsRestamped(previousRows, incomingRecords, now) ==
    IF Len(incomingRecords) = 0 THEN previousRows
    ELSE LET incomingOrdered == IncomingOrdered(incomingRecords)
             incomingKeys == {buildRowKey(incomingOrdered[i]) : i \in 1..Len(incomingOrdered)}
             merged == MergeLoop(incomingOrdered, 1, KeysOf(previousRows), previousRows, now, 0)
         IN  TruncateHistory([i \in 1..Len(merged) |->
                                 IF i <= Len(previousRows) /\ merged[i].key \in incomingKeys
                                 THEN [merged[i] EXCEPT !.seenAt = now]
                                 ELSE merged[i]])

\* mutant of mergeIncomingRows: an empty batch empties the buffer
mergeIncomingRowsEmptyClears(previousRows, incomingRecords, now) ==
    IF Len(incomingRecords) = 0 THEN <<>>
    ELSE TruncateHistory(MergeLoop(IncomingOrdered(incomingRecords), 1,
                                   KeysOf(previousRows), previousRows, now, 0))

mergeIncomingRows(previousRows, incomingRecords, now) ==
    IF Len(incomingRecords) = 0 THEN previousRows
    ELSE TruncateHistory(MergeLoop(IncomingOrdered(incomingRecords), 1,
                                   KeysOf(previousRows), previousRows, now, 0))

----------------------------------------------------------------------------
(* PcrTableClient: the window sampler effect.                              *)

appendSample(prev, at, value) ==
    LastN(MAX_PCR_SAMPLES, Append(prev, [at |-> at, value |-> value]))

\* mutant of SampleDue: any later timestamp is sampled, the period is not awaited
SampleDueAnyLater(lastSampleAt, currentAt, periodMs) ==
    \/ lastSampleAt = Null
    \/ currentAt - lastSampleAt > 0

\* the guard of one window: no sample yet, or the period has elapsed
SampleDue(lastSampleAt, currentAt, periodMs) ==
    \/ lastSampleAt = Null
    \/ currentAt - lastSampleAt >= periodMs

\* one window of the effect: the new series and the new last-sampled-at marker
\* mutant of SampleWindow: the marker is set by the first sample only
SampleWindowFirstMarker(rows, series, lastSampleAt, periodMs) ==
    IF Len(rows) = 0 THEN [series |-> series, lastAt |-> lastSampleAt]
    ELSE LET latestItem == rows[Len(rows)]
             latestPcr == toNumeric(latestItem.row[TREND_SOURCE])
             currentAt == latestItem.seenAt
         IN  IF latestPcr = Null THEN [series |-> series, lastAt |-> lastSampleAt]
             ELSE IF SampleDue(lastSampleAt, currentAt, periodMs)
                  THEN [series |-> appendSample(series, currentAt, latestPcr),
                        lastAt |-> IF lastSampleAt = Null THEN currentAt
                                   ELSE lastSampleAt]
                  ELSE [series |-> series, lastAt |-> lastSampleAt]

SampleWindow(rows, series, lastSampleAt, periodMs) ==
    IF Len(rows) = 0 THEN [series |-> series, lastAt |-> lastSampleAt]
    ELSE LET latestItem == rows[Len(rows)]
             latestPcr == toNumeric(latestItem.row[TREND_SOURCE])
             currentAt == latestItem.seenAt
         IN  IF latestPcr = Null THEN [series |-> series, lastAt |-> lastSampleAt]
             ELSE IF SampleDue(lastSampleAt, currentAt, periodMs)
                  THEN [series |-> appendSample(series, currentAt, latestPcr),
                        lastAt |-> currentAt]
                  ELSE [series |-> series, lastAt |-> lastSampleAt]

----------------------------------------------------------------------------
(* PcrTableClient: the trend of a window.                                  *)

RECURSIVE SeqMax(_)
SeqMax(vals) ==
    IF Len(vals) = 1 THEN vals[1]
    ELSE LET m == SeqMax(Tail(vals)) IN IF vals[1] > m THEN vals[1] ELSE m

RECURSIVE SeqMin(_)
SeqMin(vals) ==
    IF Len(vals) = 1 THEN vals[1]
    ELSE LET m == SeqMin(Tail(vals)) IN IF vals[1] < m THEN vals[1] ELSE m

\* pcrTrendViews is null
NoTrendViews == [present |-> FALSE, tone3m |-> "", tone5m |-> ""]

\* label.toUpperCase()
UpperLabel(label) == IF label = "3m" THEN "3M" ELSE "5M"

TrendView(tone, title, latest, slope, label) ==
    [tone |-> tone, title |-> title, latest |-> latest, slope |-> slope,
     windowLabel |-> label]

\* mutant of TroughToLatestRise: the rise is measured from the oldest sample
TroughToLatestRiseFromOldest(oldestToLatest) ==
    oldestToLatest[Len(oldestToLatest)] - oldestToLatest[1]

\* latest - Math.min(...oldestToLatest)
TroughToLatestRise(oldestToLatest) ==
    oldestToLatest[Len(oldestToLatest)] - SeqMin(oldestToLatest)

\* mutant of MomentumThreshold: both windows ask for 0.10
MomentumThresholdLong(label) == 10

\* label === "3m" ? 0.08 : 0.1
MomentumThreshold(label) == IF label = "3m" THEN 8 ELSE 10

\* mutant of TrendPending: one sample is classified already
TrendPendingEmptyOnly(series) == Len(series) < 1

\* series.length < 2
TrendPending(series) == Len(series) < 2

\* the TrendView of a series of samples, without its subtitle and trail
buildTrendView(series, label) ==
    IF TrendPending(series)
    THEN TrendView("neutral", UpperLabel(label) \o " TREND PENDING",
                   IF Len(series) = 0 THEN Null ELSE series[Len(series)].value,
                   0, label)
    ELSE
      LET oldestToLatest == [i \in 1..Len(series) |-> series[i].value]
          n == Len(oldestToLatest)
          upSteps == Cardinality({i \in 2..n : oldestToLatest[i] - oldestToLatest[i - 1] >= 1})
          downSteps == Cardinality({i \in 2..n : oldestToLatest[i] - oldestToLatest[i - 1] <= -1})
          latest == oldestToLatest[n]
          oldest == oldestToLatest[1]
          slope == latest - oldest
          peak == SeqMax(oldestToLatest)
          peakToLatestDrop == latest - peak
          trough == SeqMin(oldestToLatest)
          troughToLatestRise == TroughToLatestRise(oldestToLatest)
          highZoneDropThreshold == -10
          lowZoneRiseThreshold == 10
          momentumThreshold == MomentumThreshold(label)
          neutralSlopeBuffer == 6
          nearMonotonicUp == upSteps >= n - 2
          nearMonotonicDown == downSteps >= n - 2
      IN  IF latest <= 75
          THEN (IF troughToLatestRise >= lowZoneRiseThreshold
                THEN TrendView("bullish", "BULLISH RISK", latest, slope, label)
                ELSE TrendView("bearish", "BEARISH MARKET", latest, slope, label))
          ELSE IF latest >= 125
          THEN (IF peakToLatestDrop <= highZoneDropThreshold
                THEN TrendView("bearish", "BEARISH RISK", latest, slope, label)
                ELSE TrendView("bullish", "BULLISH MARKET", latest, slope, label))
          ELSE IF Abs(slope) < neutralSlopeBuffer
          THEN TrendView("neutral", "NEUTRAL", latest, slope, label)
          ELSE IF slope >= momentumThreshold /\ nearMonotonicUp
          THEN TrendView("bullish", "BULLISH MARKET", latest, slope, label)
          ELSE IF slope <= -momentumThreshold /\ nearMonotonicDown
          THEN TrendView("bearish", "BEARISH MARKET", latest, slope, label)
          ELSE TrendView("neutral", "NEUTRAL", latest, slope, label)

\* ---- the classifier of src/frontend/src/app/PcrTableClient.tsx, over the
\* ---- history buffer and a window of time

\* the records with a numeric ratio, oldest first, as (seenAt, value)
withPcr(rows) ==
    LET numeric == {i \in 1..Len(rows) : toNumeric(rows[i].row[TREND_SOURCE]) # Null}
        Nth(k) == CHOOSE i \in numeric : Cardinality({j \in numeric : j <= i}) = k
    IN  [k \in 1..Cardinality(numeric) |->
            [seenAt |-> rows[Nth(k)].seenAt,
             value |-> toNumeric(rows[Nth(k)].row[TREND_SOURCE])]]

\* oldestToLatest: the values of the points from the baseline point on; the
\* baseline is the newest point at least the window before the latest one,
\* or the first point
WindowValues(points, requestedWindowMs) ==
    LET targetTime == points[Len(points)].seenAt - requestedWindowMs
        old == {i \in 1..Len(points) : points[i].seenAt <= targetTime}
        baselinePoint == IF old = {} THEN points[1]
                         ELSE points[CHOOSE i \in old : \A j \in old : j <= i]
        kept == {i \in 1..Len(points) : points[i].seenAt >= baselinePoint.seenAt}
        Nth(k) == CHOOSE i \in kept : Cardinality({j \in kept : j <= i}) = k
    IN  [k \in 1..Cardinality(kept) |-> points[Nth(k)].value]

\* the tone of buildTrendView(requestedWindowMs, label)
LegacyTone(rows, requestedWindowMs, label) ==
    IF Len(withPcr(rows)) < 2 THEN "neutral"
    ELSE
      LET oldestToLatest == WindowValues(withPcr(rows), requestedWindowMs)
          n == Len(oldestToLatest)
          upSteps == Cardinality({i \in 2..n : oldestToLatest[i] - oldestToLatest[i - 1] >= 1})
          downSteps == Cardinality({i \in 2..n : oldestToLatest[i] - oldestToLatest[i - 1] <= -1})
          latest == oldestToLatest[n]
          oldest == oldestToLatest[1]
          slope == latest - oldest
          highZoneDropThreshold == IF label = "3m" THEN -12 ELSE -20
          lowZoneRiseThreshold == IF label = "3m" THEN 10 ELSE 12
          momentumThreshold == IF label = "3m" THEN 8 ELSE 10
          nearMonotonicUp == upSteps >= n - 2
          nearMonotonicDown == downSteps >= n - 2
      IN  IF latest <= 75
          THEN (IF slope >= lowZoneRiseThreshold /\ nearMonotonicUp THEN "bullish"
                ELSE "bearish")
          ELSE IF latest >= 125
          THEN (IF slope <= highZoneDropThreshold THEN "bearish" ELSE "bullish")
          ELSE IF slope >= momentumThreshold /\ nearMonotonicUp THEN "bullish"
          ELSE IF slope <= -momentumThreshold /\ nearMonotonicDown THEN "bearish"
          ELSE "neutral"

\* the pcrTrendViews memo of that file, as far as the tones go
LegacyTrendViews(rows) ==
    IF Len(rows) = 0 THEN NoTrendViews
    ELSE [present |-> TRUE,
          tone3m |-> LegacyTone(rows, THREE_MIN_MS, "3m"),
          tone5m |-> LegacyTone(rows, FIVE_MIN_MS, "5m")]

\* historyRows.slice(-MAX_ROWS).map((item) => item.row).reverse()
orderedRows(rows) ==
    LET shown == LastN(MAX_ROWS, rows)
    IN  [i \in 1..Len(shown) |-> shown[Len(shown) + 1 - i].row]

----------------------------------------------------------------------------
(* PcrTableClient: texts, volumes and the session of the day.              *)

\* the characters of the texts the data source sends in signals.buildUpSignal
\* and vwapSignal
Chars(s) ==
    CASE s = "Long Bullish" -> <<"L", "o", "n", "g", " ", "B", "u", "l", "l", "i", "s", "h">>
      [] s = "bearish" -> <<"b", "e", "a", "r", "i", "s", "h">>
      [] s = "bullish bearish" -> <<"b", "u", "l", "l", "i", "s", "h", " ",
                                    "b", "e", "a", "r", "i", "s", "h">>
      [] s = "bullish" -> <<"b", "u", "l", "l", "i", "s", "h">>
      [] s = "Above" -> <<"A", "b", "o", "v", "e">>
      [] s = "above" -> <<"a", "b", "o", "v", "e">>
      [] s = "below" -> <<"b", "e", "l", "o", "w">>
      [] s = "Flat" -> <<"F", "l", "a", "t">>
      [] OTHER -> <<>>

LowerChar(c) ==
    CASE c = "A" -> "a"
      [] c = "B" -> "b"
      [] c = "F" -> "f"
      [] c = "L" -> "l"
      [] OTHER -> c

\* String.prototype.toLowerCase, on characters
toLowerCase(cs) == [i \in 1..Len(cs) |-> LowerChar(cs[i])]

\* String.prototype.includes, on characters
includes(cs, sub) ==
    \E i \in 0..(Len(cs) - Len(sub)) : SubSeq(cs, i + 1, i + Len(sub)) = sub

\* the number and the unit the pattern /^(-?\d+(?:\.\d+)?)\s*(Cr|L)?$/i finds in
\* the volume strings the model feeds; unit "" where there is none, num Null
\* where the string does not match
CompactMatch(raw) ==
    CASE raw = "1.2 L" -> [num |-> 120, unit |-> "l"]
      [] raw = "1.1 L" -> [num |-> 110, unit |-> "l"]
      [] raw = "1.5 l" -> [num |-> 150, unit |-> "l"]
      [] raw = "1 L" -> [num |-> 100, unit |-> "l"]
      [] raw = "0.01 Cr" -> [num |-> 1, unit |-> "cr"]
      [] raw = "115" -> [num |-> 11500, unit |-> ""]
      [] raw = "114" -> [num |-> 11400, unit |-> ""]
      [] raw = "100" -> [num |-> 10000, unit |-> ""]
      [] raw = "-115" -> [num |-> -11500, unit |-> ""]
      [] raw = "-100" -> [num |-> -10000, unit |-> ""]
      [] raw = "0" -> [num |-> 0, unit |-> ""]
      [] OTHER -> [num |-> Null, unit |-> ""]

parseCompactVolume(value) ==
    IF value.type = "number" THEN value.num
    ELSE IF value.type # "string" THEN Null
    ELSE IF IsBlank(value.str) THEN Null
    ELSE LET match == CompactMatch(value.str)
         IN  IF match.num = Null THEN NumberOfString(value.str)
             ELSE IF match.unit = "cr" THEN match.num * 10000000
             ELSE IF match.unit = "l" THEN match.num * 100000
             ELSE match.num

\* 09:15, 10:00, 13:30 and 15:30 as minutes of the day
OpeningStart == 9 * 60 + 15
TrendStart == 10 * 60
LateStart == 13 * 60 + 30
LateEnd == 15 * 60 + 30

\* the session of the minute `total` of the day in Asia/Kolkata; the
\* multiplier is fixed-point: 108 is 1.08
getIstSessionPhase(total) ==
    IF total >= OpeningStart /\ total < TrendStart
    THEN [name |-> "Opening Drive", multiplier |-> 108]
    ELSE IF total >= TrendStart /\ total < LateStart
    THEN [name |-> "Trend Window", multiplier |-> 100]
    ELSE IF total >= LateStart /\ total <= LateEnd
    THEN [name |-> "Late Session", multiplier |-> 92]
    ELSE [name |-> "Off Session", multiplier |-> 85]

\* hour * 60 + minute of new Date() in Asia/Kolkata, for the clock reading
\* `now`; clockOriginIst is the minute of the day at the reading 0
IstMinuteOfDay(now) == (clockOriginIst + now \div 60000) % 1440

----------------------------------------------------------------------------
(* PcrTableClient: the analytics of a render and the signal journal.       *)

\* the numeric values of TREND_SOURCE in the buffer, oldest first
pcrPoints(rows) ==
    LET numeric == {i \in 1..Len(rows) : toNumeric(rows[i].row[TREND_SOURCE]) # Null}
        Nth(k) == CHOOSE i \in numeric : Cardinality({j \in numeric : j <= i}) = k
    IN  [k \in 1..Cardinality(numeric) |-> toNumeric(rows[Nth(k)].row[TREND_SOURCE])]

\* mutant of RegimeOf: the regime is that of the first and the last numeric
\* point alone
RegimeOfEnds(rows) ==
    LET points == pcrPoints(rows)
        n == Len(points)
        netSlope == IF n >= 2 THEN points[n] - points[1] ELSE 0
    IN  IF Abs(netSlope) < 8 THEN "Rangebound"
        ELSE IF Abs(netSlope) >= 12 THEN "Trending"
        ELSE "Balanced"

\* the regime of the last RegimeWindow numeric points
RegimeOf(rows) ==
    LET recentPoints == LastN(RegimeWindow, pcrPoints(rows))
        n == Len(recentPoints)
        range == IF n > 1 THEN SeqMax(recentPoints) - SeqMin(recentPoints) ELSE 0
        up == Cardinality({i \in 2..n : recentPoints[i] > recentPoints[i - 1]})
        down == Cardinality({i \in 2..n : recentPoints[i] < recentPoints[i - 1]})
        steps == IF n - 1 > 1 THEN n - 1 ELSE 1
        most == IF up > down THEN up ELSE down
        netSlope == IF n >= 2 THEN recentPoints[n] - recentPoints[1] ELSE 0
    IN  IF range < 8 THEN "Rangebound"
        \* consistency = most / steps, against 0.6 and 0.7
        ELSE IF range > 22 /\ 10 * most < 6 * steps THEN "Volatile/Choppy"
        ELSE IF Abs(netSlope) >= 12 /\ 10 * most >= 7 * steps THEN "Trending"
        ELSE "Balanced"

\* mutant of OiFlowAdjustment: the adjustment is given from any imbalance on
OiFlowAdjustmentAnyImbalance(peChg, ceChg) ==
    IF peChg - ceChg > 0 THEN 10 ELSE IF peChg - ceChg < 0 THEN -10 ELSE 0

\* what the two OI-flow legs add to the score; oiBalance = |peChg| / max(1,
\* |ceChg|) is compared with 1.15 (the legs are fixed-point: 100 is 1)
OiFlowAdjustment(peChg, ceChg) ==
    LET oiDiff == peChg - ceChg
        base == IF Abs(ceChg) > 100 THEN Abs(ceChg) ELSE 100
        hasClearOiImbalance ==
            IF peChg # 0 /\ ceChg # 0 THEN 100 * Abs(peChg) >= 115 * base ELSE FALSE
    IN  IF hasClearOiImbalance /\ oiDiff > 0 THEN 10
        ELSE IF hasClearOiImbalance /\ oiDiff < 0 THEN -10
        ELSE 0

\* mutant of TrendAdjustment: two agreeing windows are worth 10
TrendAdjustmentWeak(tone3, tone5) ==
    IF tone3 = "bullish" /\ tone5 = "bullish" THEN 10
    ELSE IF tone3 = "bearish" /\ tone5 = "bearish" THEN -10
    ELSE 0

TrendAdjustment(tone3, tone5) ==
    IF tone3 = "bullish" /\ tone5 = "bullish" THEN 22
    ELSE IF tone3 = "bearish" /\ tone5 = "bearish" THEN -22
    ELSE 0

\* mutant of ZoneAdjustment: the bounds of the zones are not part of them
ZoneAdjustmentStrict(latestAllPcr) ==
    IF latestAllPcr = Null THEN 0
    ELSE IF latestAllPcr > 125 THEN 10
    ELSE IF latestAllPcr < 75 THEN -10
    ELSE 0

ZoneAdjustment(latestAllPcr) ==
    IF latestAllPcr = Null THEN 0
    ELSE IF latestAllPcr >= 125 THEN 10
    ELSE IF latestAllPcr <= 75 THEN -10
    ELSE 0

\* +8 for the first word in the lower-cased text, -8 for the second
TextAdjustment(text, plus, minus) ==
    LET lower == toLowerCase(Chars(text))
    IN  (IF includes(lower, Chars(plus)) THEN 8 ELSE 0)
        - (IF includes(lower, Chars(minus)) THEN 8 ELSE 0)

\* mutant of RoundClamp: the product is rounded without being clamped
RoundUnclamped(score, multiplier) == (score * multiplier + 50) \div 100

\* Math.round(Math.max(0, Math.min(100, score * multiplier))); Math.round
\* rounds halves up
RoundClamp(score, multiplier) ==
    LET product == score * multiplier
        clamped == IF product > 10000 THEN 10000 ELSE IF product < 0 THEN 0 ELSE product
    IN  (clamped + 50) \div 100

\* mutant of DirectionOf: the bounds 62 and 38 are NO TRADE
DirectionOfStrict(score) ==
    IF score > 62 THEN "BULLISH" ELSE IF score < 38 THEN "BEARISH" ELSE "NO TRADE"

DirectionOf(score) ==
    IF score >= 62 THEN "BULLISH" ELSE IF score <= 38 THEN "BEARISH" ELSE "NO TRADE"

\* the direction and the tone of a window agree
ToneAgrees(direction, tone) ==
    \/ direction = "BULLISH" /\ tone = "bullish"
    \/ direction = "BEARISH" /\ tone = "bearish"

\* mutant of EntryReadyOf: the regime is not looked at
EntryReadyAnyRegime(direction, regime, tone3) ==
    direction # "NO TRADE" /\ ToneAgrees(direction, tone3)

EntryReadyOf(direction, regime, tone3) ==
    /\ direction # "NO TRADE"
    /\ regime # "Volatile/Choppy"
    /\ ToneAgrees(direction, tone3)

\* mutant of ConfirmedOf: the long window is not looked at
ConfirmedShortOnly(entryReady, direction, tone5, trendConflict) == entryReady

ConfirmedOf(entryReady, direction, tone5, trendConflict) ==
    /\ entryReady
    /\ ToneAgrees(direction, tone5)
    /\ ~trendConflict

\* mutant of ExitWarningOf: the score warns below 70 and above 30, inside the
\* bounds of a call
ExitWarningInsideCall(direction, tone3, score) ==
    IF direction = "BULLISH" THEN tone3 = "bearish" \/ score < 70
    ELSE IF direction = "BEARISH" THEN tone3 = "bullish" \/ score > 30
    ELSE FALSE

\* mutant of ExitWarningOf: a BEARISH call is never warned against
ExitWarningBullishOnly(direction, tone3, score) ==
    IF direction = "BULLISH" THEN tone3 = "bearish" \/ score < 50
    ELSE FALSE

ExitWarningOf(direction, tone3, score) ==
    IF direction = "BULLISH" THEN tone3 = "bearish" \/ score < 50
    ELSE IF direction = "BEARISH" THEN tone3 = "bullish" \/ score > 50
    ELSE FALSE

\* strikes and offsets in hundredths of a point, as every number of the model
DEFAULT_STRIKE_STEP == 50 * 100
OTM_OFFSET_POINTS == 200 * 100
HEDGE_OFFSET_POINTS == 200 * 100

\* Math.floor(value / step) * step; \div rounds towards minus infinity
roundDownToStep(value, step) == (value \div step) * step

\* Math.ceil(value / step) * step
roundUpToStep(value, step) == (0 - ((0 - value) \div step)) * step

ChecklistReadyOf(direction, entryReady, confirmed, trendConflict, regime) ==
    /\ direction # "NO TRADE"
    /\ entryReady
    /\ confirmed
    /\ ~trendConflict
    /\ regime # "Volatile/Choppy"

\* mutant of EntryWindowStatusOf: a complete checklist opens the late session too
EntryWindowStatusLateOpen(sessionName, checklistReady) ==
    IF sessionName = "Trend Window" /\ checklistReady THEN "OPEN"
    ELSE IF sessionName = "Trend Window" THEN "CAUTION"
    ELSE IF sessionName = "Late Session" /\ checklistReady THEN "OPEN"
    ELSE IF sessionName = "Opening Drive" THEN "AVOID"
    ELSE "AVOID"

EntryWindowStatusOf(sessionName, checklistReady) ==
    IF sessionName = "Trend Window" /\ checklistReady THEN "OPEN"
    ELSE IF sessionName = "Trend Window" THEN "CAUTION"
    ELSE IF sessionName = "Late Session" /\ checklistReady THEN "CAUTION"
    ELSE IF sessionName = "Opening Drive" THEN "AVOID"
    ELSE "AVOID"

\* sellStrikePlan is null
NoPlan ==
    [present |-> FALSE, strategy |-> "", side |-> "", strike |-> 0,
     hedgeSide |-> "", hedgeStrike |-> 0, safety |-> ""]

\* distancePct >= 1.4 ? "HIGH" : distancePct >= 0.9 ? "MEDIUM" : "LOW", with
\* distancePct = distance / Math.max(1, underlying) * 100
SafetyOf(distance, underlying) ==
    LET base == IF underlying > 100 THEN underlying ELSE 100
    IN  IF distance * 1000 >= 14 * base THEN "HIGH"
        ELSE IF distance * 1000 >= 9 * base THEN "MEDIUM"
        ELSE "LOW"

\* mutant of BullishSellStrike: the strike at or above spot - 200
BullishSellStrikeUp(underlying) ==
    roundUpToStep(underlying - OTM_OFFSET_POINTS, DEFAULT_STRIKE_STEP)

BullishSellStrike(underlying) ==
    roundDownToStep(underlying - OTM_OFFSET_POINTS, DEFAULT_STRIKE_STEP)

BearishSellStrike(underlying) ==
    roundUpToStep(underlying + OTM_OFFSET_POINTS, DEFAULT_STRIKE_STEP)

\* confirmed && underlying !== null, underlying being null unless data.underlying
\* is a number
PlanDue(confirmed, underlying) == confirmed /\ underlying # Null

SellStrikePlanOf(confirmed, direction, underlying) ==
    IF ~PlanDue(confirmed, underlying) THEN NoPlan
    ELSE IF direction = "BULLISH" THEN
      LET sellStrike == BullishSellStrike(underlying)
      IN  [present |-> TRUE, strategy |-> "BULL PUT SPREAD", side |-> "PE SELL",
           strike |-> sellStrike, hedgeSide |-> "PE BUY HEDGE",
           hedgeStrike |-> roundDownToStep(sellStrike - HEDGE_OFFSET_POINTS,
                                           DEFAULT_STRIKE_STEP),
           safety |-> SafetyOf(underlying - sellStrike, underlying)]
    ELSE IF direction = "BEARISH" THEN
      LET sellStrike == BearishSellStrike(underlying)
      IN  [present |-> TRUE, strategy |-> "BEAR CALL SPREAD", side |-> "CE SELL",
           strike |-> sellStrike, hedgeSide |-> "CE BUY HEDGE",
           hedgeStrike |-> roundUpToStep(sellStrike + HEDGE_OFFSET_POINTS,
                                         DEFAULT_STRIKE_STEP),
           safety |-> SafetyOf(sellStrike - underlying, underlying)]
    ELSE NoPlan

\* analyticsView is null
NoView ==
    [present |-> FALSE, score |-> 0, regime |-> "", direction |-> "",
     entryReady |-> FALSE, confirmed |-> FALSE, exitWarning |-> FALSE,
     trendConflict |-> FALSE, sessionName |-> "",
     sellStrikePlan |-> NoPlan, entryWindowStatus |-> ""]

\* the body of the analyticsView memo, as far as score, regime, direction, the
\* checklist, the entry window and the strike plan go; `dat` is the state `data`, `total` the minute of the day
AnalyticsOf(rows, series3, series5, dat, total) ==
    IF Len(orderedRows(rows)) = 0 THEN NoView
    ELSE
      LET latestRow == orderedRows(rows)[1]
          latestAllPcr == toNumeric(latestRow[TREND_SOURCE])
          peChg == OrZero(parseCompactVolume(latestRow["PE OI Change (+-2)"]))
          ceChg == OrZero(parseCompactVolume(latestRow["CE OI Change (+-2)"]))
          trend3 == buildTrendView(series3, "3m")
          trend5 == buildTrendView(series5, "5m")
          trendConflict == trend3.tone # trend5.tone
          session == getIstSessionPhase(total)
          score == RoundClamp(50 + TrendAdjustment(trend3.tone, trend5.tone)
                                 + ZoneAdjustment(latestAllPcr)
                                 + OiFlowAdjustment(peChg, ceChg)
                                 + TextAdjustment(dat.buildUpSignal, "bullish", "bearish")
                                 + TextAdjustment(dat.vwapSignal, "above", "below"),
                              session.multiplier)
          regime == RegimeOf(rows)
          direction == DirectionOf(score)
          entryReady == EntryReadyOf(direction, regime, trend3.tone)
          confirmed == ConfirmedOf(entryReady, direction, trend5.tone, trendConflict)
      IN  [present |-> TRUE, score |-> score, regime |-> regime, direction |-> direction,
           entryReady |-> entryReady, confirmed |-> confirmed,
           exitWarning |-> ExitWarningOf(direction, trend3.tone, score),
           trendConflict |-> trendConflict, sessionName |-> session.name,
           sellStrikePlan |-> SellStrikePlanOf(confirmed, direction, dat.underlying),
           entryWindowStatus |->
               EntryWindowStatusOf(session.name,
                   ChecklistReadyOf(direction, entryReady, confirmed, trendConflict,
                                    regime))]

\* `${direction}|${score}|${regime}`
JournalKey(view) == view.direction \o "|" \o ToString(view.score) \o "|" \o view.regime

\* a journal entry; `at` is the Date.now() of its id (the time of day the
\* source formats next to it is left out), reason holds the three parts the
\* source joins with " . "
JournalEntry(view, now) ==
    [at |-> now, direction |-> view.direction, score |-> view.score,
     reason |-> << view.regime,
                   IF view.entryReady THEN "entry-ready" ELSE "setup",
                   IF view.confirmed THEN "confirmed" ELSE "pending" >>]

FirstN(n, s) == IF Len(s) <= n THEN s ELSE SubSeq(s, 1, n)

\* mutant of JournalAppend: the new entry goes to the end and the head is dropped
JournalAppendAtEnd(entry, prev) == LastN(MAX_JOURNAL_ROWS, Append(prev, entry))

\* [entry, ...prev].slice(0, MAX_JOURNAL_ROWS)
JournalAppend(entry, prev) == FirstN(MAX_JOURNAL_ROWS, <<entry>> \o prev)

\* mutant of JournalDue: the key of the last entry is not looked at
JournalDueAlways(view, lastKey) == view.present /\ view.direction # "NO TRADE"

\* the guards of the journal effect
JournalDue(view, lastKey) ==
    /\ view.present
    /\ view.direction # "NO TRADE"
    /\ lastKey # JournalKey(view)

\* mutant of JournalStep: a NO TRADE view clears the last-recorded key
JournalStepResetsKey(view, journal, lastKey, now) ==
    IF JournalDue(view, lastKey)
    THEN [journal |-> JournalAppend(JournalEntry(view, now), journal),
          lastKey |-> JournalKey(view)]
    ELSE IF view.present /\ view.direction = "NO TRADE"
    THEN [journal |-> journal, lastKey |-> ""]
    ELSE [journal |-> journal, lastKey |-> lastKey]

\* one run of the journal effect on the view of a render: the journal and the
\* key it leaves
JournalStep(view, journal, lastKey, now) ==
    IF JournalDue(view, lastKey)
    THEN [journal |-> JournalAppend(JournalEntry(view, now), journal),
          lastKey |-> JournalKey(view)]
    ELSE [journal |-> journal, lastKey |-> lastKey]

----------------------------------------------------------------------------
(* PcrTableClient: the poll.                                               *)

RemoveAt(s, i) == SubSeq(s, 1, i - 1) \o SubSeq(s, i + 1, Len(s))

\* a response was applied: every request issued before it is now stale
Supersede(inflight, i) ==
    [j \in 1..Len(inflight) |-> IF j < i THEN [inflight[j] EXCEPT !.stale = TRUE]
                                ELSE inflight[j]]

\* a response body of /api/nifty/pcr, as far as the component reads it
PcrResponseSignals(records, underlying, buildUpSignal, vwapSignal) ==
    [records |-> records, underlying |-> underlying,
     buildUpSignal |-> buildUpSignal, vwapSignal |-> vwapSignal]

\* a response without signals.buildUpSignal and without vwapSignal
PcrResponse(records, underlying) == PcrResponseSignals(records, underlying, "", "")

\* useState<PcrResponse | null>(null); `records` is consumed by mergeIncomingRows
\* and never read from `data`, so the state keeps the rest of the response; a
\* text that is missing reads as "" (`?.toLowerCase() || ""`)
NoData == [loaded |-> FALSE, underlying |-> Null, buildUpSignal |-> "", vwapSignal |-> ""]

\* setInterval(load, 3000) fires (or the mount effect calls load): the fetch is
\* started and the data source answers with `next`
LoadStart(limit, next) ==
    /\ pcrMounted
    /\ Len(pcrInflight) < limit
    /\ pcrInflight' = Append(pcrInflight, [stale |-> FALSE, next |-> next])
    /\ UNCHANGED <<data, historyRows, error, pcr3mSeries, pcr5mSeries,
                   last3mSampleAtRef, last5mSampleAtRef, clock>>
    /\ UNCHANGED chainVars
    /\ UNCHANGED analyticsVars
    /\ UNCHANGED lifeVars

\* the response of request i arrives with a 2xx status: load applies it; the
\* render that follows recomputes the analytics from the new rows and runs the
\* sampler effect and the journal effect; a sample taken by the sampler effect
\* makes one more render, which recomputes the analytics from the new series
\* and runs the journal effect again
LoadApply(i, now) ==
    /\ pcrMounted
    /\ i \in 1..Len(pcrInflight)
    /\ pcrInflight' = RemoveAt(Supersede(pcrInflight, i), i)
    /\ clock' = now
    /\ data' = [loaded |-> TRUE, underlying |-> pcrInflight[i].next.underlying,
                buildUpSignal |-> pcrInflight[i].next.buildUpSignal,
                vwapSignal |-> pcrInflight[i].next.vwapSignal]
    /\ error' = ""
    \* mergeIncomingRows returns previousRows itself for an empty batch: the
    \* sampler effect, keyed on [historyRows], does not run (effectRuns); the
    \* memo's dependencies are historyRows (a new array for every batch that
    \* is not empty) and the two texts (recomputed); `first` is the view of the
    \* render after load, `second` that of the render after a sample
    /\ \E records \in {pcrInflight[i].next.records} :
       \E rows \in {mergeIncomingRows(historyRows, records, now)} :
       \E w3 \in {SampleWindow(rows, pcr3mSeries, last3mSampleAtRef, THREE_MIN_MS)} :
       \E w5 \in {SampleWindow(rows, pcr5mSeries, last5mSampleAtRef, FIVE_MIN_MS)} :
       \E first \in {AnalyticsOf(rows, pcr3mSeries, pcr5mSeries, data', IstMinuteOfDay(now))} :
       \E second \in {AnalyticsOf(rows, w3.series, w5.series, data', IstMinuteOfDay(now))} :
       LET effectRuns == Len(records) > 0
           recomputed == \/ effectRuns
                         \/ data'.buildUpSignal # data.buildUpSignal
                         \/ data'.vwapSignal # data.vwapSignal
           sampled == effectRuns /\ (w3.lastAt # last3mSampleAtRef
                                      \/ w5.lastAt # last5mSampleAtRef)
       IN  /\ historyRows' = rows
           /\ pcr3mSeries' = IF effectRuns THEN w3.series ELSE pcr3mSeries
           /\ last3mSampleAtRef' = IF effectRuns THEN w3.lastAt ELSE last3mSampleAtRef
           /\ pcr5mSeries' = IF effectRuns THEN w5.series ELSE pcr5mSeries
           /\ last5mSampleAtRef' = IF effectRuns THEN w5.lastAt ELSE last5mSampleAtRef
           /\ \E afterFirst \in {IF recomputed
                                  THEN JournalStep(first, signalJournal, lastJournalKeyRef, now)
                                  ELSE [journal |-> signalJournal, lastKey |-> lastJournalKeyRef]} :
              \E afterSecond \in {IF sampled
                                   THEN JournalStep(second, afterFirst.journal, afterFirst.lastKey, now)
                                   ELSE afterFirst} :
                  /\ analyticsView' = IF sampled THEN second
                                      ELSE IF recomputed THEN first ELSE analyticsView
                  /\ signalJournal' = afterSecond.journal
                  /\ lastJournalKeyRef' = afterSecond.lastKey
    /\ UNCHANGED <<clockOriginIst, legacyTrend>>
    /\ UNCHANGED chainVars
    /\ UNCHANGED lifeVars

\* the fetch of request i rejects, or its status is not 2xx: the catch sets error
\* mutant of LoadFail: a failure drops the last good snapshot
LoadFailDropsData(i) ==
    /\ pcrMounted
    /\ i \in 1..Len(pcrInflight)
    /\ pcrInflight' = RemoveAt(pcrInflight, i)
    /\ error' = "Failed to load PCR"
    /\ data' = NoData
    /\ UNCHANGED <<historyRows, pcr3mSeries, pcr5mSeries,
                   last3mSampleAtRef, last5mSampleAtRef, clock>>
    /\ UNCHANGED chainVars
    /\ UNCHANGED analyticsVars
    /\ UNCHANGED lifeVars

LoadFail(i) ==
    /\ pcrMounted
    /\ i \in 1..Len(pcrInflight)
    /\ pcrInflight' = RemoveAt(pcrInflight, i)
    /\ error' = "Failed to load PCR"
    /\ UNCHANGED <<data, historyRows, pcr3mSeries, pcr5mSeries,
                   last3mSampleAtRef, last5mSampleAtRef, clock>>
    /\ UNCHANGED chainVars
    /\ UNCHANGED analyticsVars
    /\ UNCHANGED lifeVars

----------------------------------------------------------------------------
(* OptionChainClient: field lookup and the OI-change ratio.                *)

\* typeof number -> the value; a non-blank numeric string -> Number(value); else null
toNumber(value) ==
    IF value.type = "number" THEN value.num
    ELSE IF value.type = "string" /\ ~IsBlank(value.str)
              /\ NumberOfString(value.str) # Null
         THEN NumberOfString(value.str)
    ELSE Null

\* obj[key]: undefined for a property the object does not have
Field(obj, key) == IF key \in DOMAIN obj THEN obj[key] ELSE Undefined

RECURSIVE PickFrom(_, _, _)
PickFrom(obj, keys, i) ==
    IF i > Len(keys) THEN Null
    ELSE LET v == toNumber(Field(obj, keys[i]))
         IN  IF v # Null THEN v ELSE PickFrom(obj, keys, i + 1)

\* !obj, for a leg of a row: the leg is missing or null
Absent(obj) == obj \in {Undefined, JsNull}

\* mutant of pickNumber: a candidate is taken when it is truthy, `if (v) return v`
pickNumberTruthy(obj, keys) ==
    IF Absent(obj) THEN Null
    ELSE LET hits == {i \in 1..Len(keys) : toNumber(Field(obj, keys[i])) \notin {Null, 0}}
         IN  IF hits = {} THEN Null
             ELSE toNumber(Field(obj, keys[CHOOSE i \in hits : \A j \in hits : i <= j]))

pickNumber(obj, keys) == IF Absent(obj) THEN Null ELSE PickFrom(obj, keys, 1)

\* {}
EmptyObject == <<>>

\* the data source sends the legs flat, without a `market` or `market_data`
\* wrapper: opt.market || opt.market_data || opt is opt; {} for a missing leg
getMarket(opt) == IF Absent(opt) THEN EmptyObject ELSE opt

oiChange(market) ==
    LET oi == pickNumber(market, <<"oi", "open_interest">>)
        prevOi == pickNumber(market, <<"prev_oi", "previous_oi">>)
    IN  IF oi # Null /\ prevOi # Null THEN oi - prevOi
        ELSE pickNumber(market, <<"oi_change", "change_in_oi", "oi_change_percentage">>)

\* the threshold as a fixed-point ratio: 15 is 0.15
parseThresholdPct(value, fallbackPct) ==
    IF value.type = "undefined" \/ (value.type = "string" /\ value.str = "")
    THEN fallbackPct \div 100
    ELSE LET parsed == NumberOfString(value.str)
         IN  IF parsed = Null \/ parsed < 0 THEN fallbackPct \div 100
             ELSE parsed \div 100

oiChangeThresholdRatio == parseThresholdPct(thresholdEnv, 1500)

\* a ratio: inf is 1 / -1 for Number.POSITIVE_INFINITY / NEGATIVE_INFINITY, else
\* the quotient num / den
Ratio(inf, num, den) == [inf |-> inf, num |-> num, den |-> den]

\* mutant of diffRatioFromPrev: Math.abs is lost, the base keeps its sign
diffRatioSignedBase(prevValue, nextValue) ==
    IF prevValue = 0
    THEN (IF nextValue = 0 THEN Ratio(0, 0, 1)
          ELSE IF nextValue > 0 THEN Ratio(1, 0, 1) ELSE Ratio(-1, 0, 1))
    ELSE Ratio(0, nextValue - prevValue, prevValue)

diffRatioFromPrev(prevValue, nextValue) ==
    LET base == Abs(prevValue)
    IN  IF base = 0
        THEN (IF nextValue = 0 THEN Ratio(0, 0, 1)
              ELSE IF nextValue > 0 THEN Ratio(1, 0, 1) ELSE Ratio(-1, 0, 1))
        ELSE Ratio(0, nextValue - prevValue, base)

\* ratio >= t and ratio <= t, for a fixed-point t (15 is 0.15)
RatioGE(r, t) ==
    IF r.inf # 0 THEN r.inf > 0
    ELSE IF r.den > 0 THEN 100 * r.num >= t * r.den ELSE 100 * r.num <= t * r.den

RatioLE(r, t) ==
    IF r.inf # 0 THEN r.inf < 0
    ELSE IF r.den > 0 THEN 100 * r.num <= t * r.den ELSE 100 * r.num >= t * r.den

----------------------------------------------------------------------------
(* OptionChainClient: the highlight computation and the merge.             *)

\* String(row.strike)
StrikeKey(strike) == NumberToString(strike)

\* the class one leg of one strike gets this tick, "" for none
LegMark(prevOpt, currentOpt, threshold) ==
    LET prevOiChg == OrZero(oiChange(getMarket(prevOpt)))
        currentOiChg == OrZero(oiChange(getMarket(currentOpt)))
        diffRatio == diffRatioFromPrev(prevOiChg, currentOiChg)
    IN  IF RatioGE(diffRatio, threshold) THEN "highlight-green"
        ELSE IF RatioLE(diffRatio, -threshold) THEN "highlight-red"
        ELSE ""

Leg(row, leg) == IF leg = "call" THEN row.call ELSE row.put

\* prevDataMap.get(strike): a later row of the same strike wins
PrevRowOf(prevChain, strike) ==
    LET at == {i \in 1..Len(prevChain) : prevChain[i].strike = strike}
    IN  prevChain[CHOOSE i \in at : \A j \in at : j <= i]

HasPrevRow(prevChain, strike) == \E i \in 1..Len(prevChain) : prevChain[i].strike = strike

\* the last mark a leg gets in the loop over next.chain, "" for none
LastMark(leg, prevChain, nextChain, key, threshold) ==
    LET at == {i \in 1..Len(nextChain) :
                 /\ StrikeKey(nextChain[i].strike) = key
                 /\ HasPrevRow(prevChain, nextChain[i].strike)
                 /\ LegMark(Leg(PrevRowOf(prevChain, nextChain[i].strike), leg),
                            Leg(nextChain[i], leg), threshold) # ""}
    IN  IF at = {} THEN ""
        ELSE LET i == CHOOSE i \in at : \A j \in at : j <= i
             IN  LegMark(Leg(PrevRowOf(prevChain, nextChain[i].strike), leg),
                         Leg(nextChain[i], leg), threshold)

\* nextCallHighlights / nextPutHighlights after the loop over next.chain
ComputeMarks(leg, prevChain, nextChain, threshold) ==
    LET keys == {StrikeKey(nextChain[i].strike) : i \in 1..Len(nextChain)}
        marked == {k \in keys : LastMark(leg, prevChain, nextChain, k, threshold) # ""}
    IN  [k \in marked |-> LastMark(leg, prevChain, nextChain, k, threshold)]

LegOf(h, leg) == IF leg = "call" THEN h.call ELSE h.put

\* the strikes of a highlight map that carry a mark in the leg, with the mark
LegMap(h, leg) ==
    [k \in {x \in DOMAIN h : LegOf(h[x], leg) # ""} |-> LegOf(h[k], leg)]

\* mutant of LegPart: without new marks the leg is cleared, not carried forward
LegPartCleared(nextLeg, prevHighlights, leg) == nextLeg

\* mutant of LegPart: new marks are added to the previous ones, not put in their place
LegPartAdded(nextLeg, prevHighlights, leg) ==
    LET old == LegMap(prevHighlights, leg)
    IN  [k \in DOMAIN nextLeg \cup DOMAIN old |->
            IF k \in DOMAIN nextLeg THEN nextLeg[k] ELSE old[k]]

\* what one leg contributes to `merged`: its new marks if there is any, else
\* the leg's marks of prevHighlights
LegPart(nextLeg, prevHighlights, leg) ==
    IF DOMAIN nextLeg # {} THEN nextLeg ELSE LegMap(prevHighlights, leg)

\* the updater passed to setHighlights
MergeHighlights(prevHighlights, nextCall, nextPut) ==
    LET callPart == LegPart(nextCall, prevHighlights, "call")
        putPart == LegPart(nextPut, prevHighlights, "put")
    IN  [k \in DOMAIN callPart \cup DOMAIN putPart |->
            [call |-> IF k \in DOMAIN callPart THEN callPart[k] ELSE "",
             put |-> IF k \in DOMAIN putPart THEN putPart[k] ELSE ""]]

----------------------------------------------------------------------------
(* OptionChainClient: the poll.                                            *)

\* legs as the data source sends them, every one with its last price (10): OI
\* change 100, 0, -100 (sent as a string), 85, unknown, and 115 as oi - prev_oi
Leg100 == [ltp |-> Num(1000), oi_change |-> Num(10000)]
Leg0 == [ltp |-> Num(1000), oi_change |-> Num(0)]
LegMinus100 == [ltp |-> Num(1000), change_in_oi |-> Str("-100")]
Leg85 == [ltp |-> Num(1000), oi_change_percentage |-> Num(8500)]
LegUnknown == [ltp |-> Num(1000)]
Leg115 == [ltp |-> Num(1000), oi |-> Num(21500), prev_oi |-> Num(10000)]

\* legs that carry more than one candidate field of the OI change: an empty
\* string, a text, null and true before a number or a numeric string; two
\* numbers; a zero before a number
LegBlankFirst == [ltp |-> Num(1000), oi_change |-> Str(""), change_in_oi |-> Num(5000)]
LegTextFirst == [ltp |-> Num(1000), oi_change |-> Str("abc"), change_in_oi |-> Str(" "),
                 oi_change_percentage |-> Str("50")]
LegNullFirst == [ltp |-> Num(1000), oi_change |-> JsNull, change_in_oi |-> JsTrue,
                 oi_change_percentage |-> Num(10000)]
LegTwoNumbers == [ltp |-> Num(1000), oi_change |-> Num(10000), change_in_oi |-> Num(5000)]
LegZeroFirst == [ltp |-> Num(1000), oi_change |-> Num(0), change_in_oi |-> Num(10000)]
LegNoNumber == [ltp |-> Str("n/a"), oi_change |-> Str("abc"), change_in_oi |-> JsNull]

\* the (call, put) pairs a row of the chain may carry
RowPool == { <<Leg100, Leg100>>, <<Leg115, Leg100>>, <<Leg100, LegMinus100>>,
             <<Leg0, Leg0>>, <<LegUnknown, Leg85>> }

\* the pairs the upper strike takes
RowPoolHigh == { <<Leg100, Leg100>>, <<Leg0, Leg0>> }

StrikeLow == 2400000
StrikeHigh == 2405000

RowsAt(strike, pool) ==
    {<<>>} \cup {<<[strike |-> strike, call |-> r[1], put |-> r[2]]>> : r \in pool}

\* the chains the data source may send: each strike absent or present, in
\* strike order
Chains == {lo \o hi : lo \in RowsAt(StrikeLow, RowPool), hi \in RowsAt(StrikeHigh, RowPoolHigh)}

\* data.underlying and data.vix as a body of the option-chain API carries them:
\* the spot of the snapshot and no vix
ChainQuote == [underlying |-> StrikeLow, vix |-> Null]

\* Date.now() when the page of the option chain is mounted: any time far above
\* the 10 seconds of the live-price guard
MountTime == 100000

\* setInterval(tick, 3000) fires: the fetch is started
TickStart(limit) ==
    /\ chainMounted
    /\ Len(chainInflight) < limit
    /\ chainInflight' = Append(chainInflight, [stale |-> FALSE, cancelled |-> FALSE])
    /\ UNCHANGED <<chainData, prevChainData, highlights, nextCallHighlights,
                   nextPutHighlights, lastTick, thresholdEnv>>
    /\ UNCHANGED pcrVars
    /\ UNCHANGED analyticsVars
    /\ UNCHANGED lifeVars

\* the response of request i arrives with res.ok and the chain nextChain
TickApply(i, nextChain) ==
    /\ i \in 1..Len(chainInflight)
    /\ ~chainInflight[i].cancelled
    /\ chainInflight' = RemoveAt(Supersede(chainInflight, i), i)
    /\ lastTick' = "applied"
    /\ IF Len(prevChainData) > 0
       THEN \E nextCall \in {ComputeMarks("call", prevChainData, nextChain,
                                           oiChangeThresholdRatio)} :
            \E nextPut \in {ComputeMarks("put", prevChainData, nextChain,
                                          oiChangeThresholdRatio)} :
                /\ nextCallHighlights' = nextCall
                /\ nextPutHighlights' = nextPut
                /\ highlights' = MergeHighlights(highlights, nextCall, nextPut)
       ELSE /\ nextCallHighlights' = <<>>
            /\ nextPutHighlights' = <<>>
            /\ highlights' = highlights
    /\ prevChainData' = nextChain
    /\ chainData' = nextChain
    /\ UNCHANGED thresholdEnv
    /\ UNCHANGED pcrVars
    /\ UNCHANGED analyticsVars
    /\ liveData' = ChainQuote
    /\ UNCHANGED <<pcrMounted, chainMounted, activeExpiry, lastLtpAt, ltpInflight,
                   ltpClock, ltpTimerAt, ltpFetchedAt>>

\* the fetch of request i rejects, the body does not parse, or res.ok is false
TickFail(i) ==
    /\ i \in 1..Len(chainInflight)
    /\ chainInflight' = RemoveAt(chainInflight, i)
    /\ lastTick' = "failed"
    /\ UNCHANGED <<chainData, prevChainData, highlights, nextCallHighlights,
                   nextPutHighlights, thresholdEnv>>
    /\ UNCHANGED pcrVars
    /\ UNCHANGED analyticsVars
    /\ UNCHANGED lifeVars

----------------------------------------------------------------------------
(* The life of the two components and the live price of OptionChainClient. *)

\* fetches loadLtp may have in flight at once
MaxLtpInflight == 2
\* the last reading of Date.now() on the page of the option chain
MaxLtpClock == 130000

\* `now - lastLtpAt < 10000`
LtpThrottleMs == 10000

\* setInterval(loadLtp, 10000)
LtpIntervalMs == 10000

\* two readings of Date.now() are a multiple of half a guard interval apart
ClockStepMs == 5000

\* the clean-up of the tick effect sets `cancelled` of its closure: every tick
\* in flight belongs to that closure
CancelTicks(inflight) ==
    [i \in 1..Len(inflight) |-> [inflight[i] EXCEPT !.cancelled = TRUE]]

\* the live-price fetches in flight when the option-chain poll is restarted
\* (the mark is read by no action)
MarkRestarted(inflight) ==
    [i \in 1..Len(inflight) |-> [inflight[i] EXCEPT !.restarted = TRUE]]

\* loadLtp() up to its fetch: it returns at the throttle, else the fetch is
\* started with `now` in its closure
LtpAfterCall(inflight) ==
    IF ltpClock - lastLtpAt < LtpThrottleMs THEN inflight
    ELSE Append(inflight, [now |-> ltpClock, restarted |-> FALSE])

FetchedAtAfterCall ==
    IF ltpClock - lastLtpAt < LtpThrottleMs THEN ltpFetchedAt ELSE ltpClock

\* the interval of the LTP timer effect fires and calls loadLtp
LtpTimerFires ==
    /\ chainMounted
    /\ ltpTimerAt = ltpClock
    /\ Len(ltpInflight) < MaxLtpInflight
    /\ ltpInflight' = LtpAfterCall(ltpInflight)
    /\ ltpFetchedAt' = FetchedAtAfterCall
    /\ ltpTimerAt' = ltpClock + LtpIntervalMs
    /\ UNCHANGED <<pcrMounted, chainMounted, activeExpiry, lastLtpAt, liveData, ltpClock>>
    /\ UNCHANGED pcrVars
    /\ UNCHANGED chainVars
    /\ UNCHANGED analyticsVars

\* the prop initialData changes: the effect sets data and activeExpiry from it
\* and calls loadLtp; a new expiry restarts the tick effect
InitialDataEffect(expiry, chain) ==
    /\ chainMounted
    /\ Len(ltpInflight) < MaxLtpInflight
    /\ chainData' = chain
    /\ liveData' = ChainQuote
    /\ activeExpiry' = expiry
    /\ ltpFetchedAt' = FetchedAtAfterCall
    /\ IF expiry # activeExpiry
       THEN /\ chainInflight' = CancelTicks(chainInflight)
            /\ ltpInflight' = MarkRestarted(LtpAfterCall(ltpInflight))
       ELSE /\ chainInflight' = chainInflight
            /\ ltpInflight' = LtpAfterCall(ltpInflight)
    /\ UNCHANGED <<prevChainData, highlights, nextCallHighlights, nextPutHighlights,
                   lastTick, thresholdEnv>>
    /\ UNCHANGED <<pcrMounted, chainMounted, lastLtpAt, ltpClock, ltpTimerAt>>
    /\ UNCHANGED pcrVars
    /\ UNCHANGED analyticsVars

\* loadExpiry(expiry) for another expiry gets its response: setData(next),
\* setActiveExpiry(next.expiry || expiry); the tick effect is cleaned up and
\* run again for the new expiry
LoadExpiryApply(expiry, chain) ==
    /\ chainMounted
    /\ expiry # activeExpiry
    /\ chainData' = chain
    /\ liveData' = ChainQuote
    /\ activeExpiry' = expiry
    /\ chainInflight' = CancelTicks(chainInflight)
    /\ ltpInflight' = MarkRestarted(ltpInflight)
    /\ UNCHANGED <<prevChainData, highlights, nextCallHighlights, nextPutHighlights,
                   lastTick, thresholdEnv>>
    /\ UNCHANGED <<pcrMounted, chainMounted, lastLtpAt, ltpClock, ltpTimerAt,
                   ltpFetchedAt>>
    /\ UNCHANGED pcrVars
    /\ UNCHANGED analyticsVars

\* a value the live-price body gives for a key, or none
MergeQuote(fresh, prev) == IF fresh # Null THEN fresh ELSE prev

\* the live-price fetch i gets an ok response with these prices (Null: the key
\* is not in the body): data is merged, lastLtpAt is set to the `now` of the
\* call, and the LTP timer effect runs again when lastLtpAt has changed
LtpApply(i, underlying, vix) ==
    /\ chainMounted
    /\ i \in 1..Len(ltpInflight)
    /\ ltpInflight' = RemoveAt(ltpInflight, i)
    /\ liveData' = IF underlying # Null \/ vix # Null
                   THEN [underlying |-> MergeQuote(underlying, liveData.underlying),
                         vix |-> MergeQuote(vix, liveData.vix)]
                   ELSE liveData
    /\ lastLtpAt' = ltpInflight[i].now
    /\ ltpTimerAt' = IF lastLtpAt' # lastLtpAt THEN ltpClock + LtpIntervalMs
                     ELSE ltpTimerAt
    /\ UNCHANGED <<pcrMounted, chainMounted, activeExpiry, ltpClock, ltpFetchedAt>>
    /\ UNCHANGED pcrVars
    /\ UNCHANGED chainVars
    /\ UNCHANGED analyticsVars

\* the live-price fetch i rejects, or its response is not ok: loadLtp returns
LtpFail(i) ==
    /\ i \in 1..Len(ltpInflight)
    /\ ltpInflight' = RemoveAt(ltpInflight, i)
    /\ UNCHANGED <<pcrMounted, chainMounted, activeExpiry, lastLtpAt, liveData,
                   ltpClock, ltpTimerAt, ltpFetchedAt>>
    /\ UNCHANGED pcrVars
    /\ UNCHANGED chainVars
    /\ UNCHANGED analyticsVars

\* the live-price fetch i gets its response after the component was unmounted:
\* loadLtp calls the setters of an unmounted component, which React drops
LtpDropped(i) ==
    /\ ~chainMounted
    /\ i \in 1..Len(ltpInflight)
    /\ ltpInflight' = RemoveAt(ltpInflight, i)
    /\ UNCHANGED <<pcrMounted, chainMounted, activeExpiry, lastLtpAt, liveData,
                   ltpClock, ltpTimerAt, ltpFetchedAt>>
    /\ UNCHANGED pcrVars
    /\ UNCHANGED chainVars
    /\ UNCHANGED analyticsVars

\* the response of tick i arrives after its effect was cleaned up: `cancelled`
\* is set, nothing is applied
TickDropped(i) ==
    /\ i \in 1..Len(chainInflight)
    /\ chainInflight[i].cancelled
    /\ chainInflight' = RemoveAt(chainInflight, i)
    /\ UNCHANGED <<chainData, prevChainData, highlights, nextCallHighlights,
                   nextPutHighlights, lastTick, thresholdEnv>>
    /\ UNCHANGED pcrVars
    /\ UNCHANGED analyticsVars
    /\ UNCHANGED lifeVars

\* the response of load i arrives after the component was unmounted: load has
\* no flag of its own and calls setData, setHistoryRows and setError of an
\* unmounted component, which React drops
LoadDropped(i) ==
    /\ ~pcrMounted
    /\ i \in 1..Len(pcrInflight)
    /\ pcrInflight' = RemoveAt(pcrInflight, i)
    /\ UNCHANGED <<data, historyRows, error, pcr3mSeries, pcr5mSeries,
                   last3mSampleAtRef, last5mSampleAtRef, clock>>
    /\ UNCHANGED chainVars
    /\ UNCHANGED analyticsVars
    /\ UNCHANGED lifeVars

\* PcrTableClient is unmounted: the clean-up of the polling effect clears the
\* interval
UnmountPcr ==
    /\ pcrMounted
    /\ pcrMounted' = FALSE
    /\ UNCHANGED <<chainMounted, activeExpiry, lastLtpAt, ltpInflight, liveData,
                   ltpClock, ltpTimerAt, ltpFetchedAt>>
    /\ UNCHANGED pcrVars
    /\ UNCHANGED chainVars
    /\ UNCHANGED analyticsVars

\* OptionChainClient is unmounted: the clean-up of the tick effect sets
\* `cancelled` and clears its interval, the clean-up of the LTP timer effect
\* clears the other
UnmountChain ==
    /\ chainMounted
    /\ chainMounted' = FALSE
    /\ chainInflight' = CancelTicks(chainInflight)
    /\ ltpTimerAt' = Null
    /\ UNCHANGED <<chainData, prevChainData, highlights, nextCallHighlights,
                   nextPutHighlights, lastTick, thresholdEnv>>
    /\ UNCHANGED <<pcrMounted, activeExpiry, lastLtpAt, ltpInflight, liveData,
                   ltpClock, ltpFetchedAt>>
    /\ UNCHANGED pcrVars
    /\ UNCHANGED analyticsVars

\* time passes; a timer that is due fires first
Advance ==
    /\ ltpClock < MaxLtpClock
    /\ ltpTimerAt = Null \/ ltpClock + ClockStepMs <= ltpTimerAt
    /\ ltpClock' = ltpClock + ClockStepMs
    /\ UNCHANGED <<pcrMounted, chainMounted, activeExpiry, lastLtpAt, ltpInflight,
                   liveData, ltpTimerAt, ltpFetchedAt>>
    /\ UNCHANGED pcrVars
    /\ UNCHANGED chainVars
    /\ UNCHANGED analyticsVars

\* the page of the PCR table: useState(null), useState([]), useRef(null); the
\* option chain is not mounted
InitPcr ==
    /\ data = NoData
    /\ historyRows = <<>>
    /\ error = ""
    /\ pcr3mSeries = <<>>
    /\ pcr5mSeries = <<>>
    /\ last3mSampleAtRef = Null
    /\ last5mSampleAtRef = Null
    /\ pcrInflight = <<>>
    /\ clock = 0
    /\ chainData = <<>>
    /\ prevChainData = <<>>
    /\ highlights = <<>>
    /\ chainInflight = <<>>
    /\ nextCallHighlights = <<>>
    /\ nextPutHighlights = <<>>
    /\ lastTick = "none"
    /\ thresholdEnv = Undefined
    /\ analyticsView = NoView
    /\ signalJournal = <<>>
    /\ lastJournalKeyRef = ""
    /\ clockOriginIst = 9 * 60 + 57
    /\ legacyTrend = NoTrendViews
    /\ pcrMounted = TRUE
    /\ chainMounted = FALSE
    /\ activeExpiry = "near"
    /\ lastLtpAt = 0
    /\ ltpInflight = <<>>
    /\ liveData = ChainQuote
    /\ ltpClock = MountTime
    /\ ltpTimerAt = Null
    /\ ltpFetchedAt = Null

\* the page of the option chain: useState(initialData), useRef([]),
\* useState({}); the PCR table is not mounted
InitChain ==
    /\ chainData \in Chains
    /\ prevChainData = <<>>
    /\ highlights = <<>>
    /\ chainInflight = <<>>
    /\ nextCallHighlights = <<>>
    /\ nextPutHighlights = <<>>
    /\ lastTick = "none"
    /\ thresholdEnv \in {Undefined, Str("abc"), Str("50")}
    /\ data = NoData
    /\ historyRows = <<>>
    /\ error = ""
    /\ pcr3mSeries = <<>>
    /\ pcr5mSeries = <<>>
    /\ last3mSampleAtRef = Null
    /\ last5mSampleAtRef = Null
    /\ pcrInflight = <<>>
    /\ clock = 0
    /\ analyticsView = NoView
    /\ signalJournal = <<>>
    /\ lastJournalKeyRef = ""
    /\ clockOriginIst = 9 * 60 + 57
    /\ legacyTrend = NoTrendViews
    /\ pcrMounted = FALSE
    /\ chainMounted = TRUE
    /\ activeExpiry = "near"
    /\ lastLtpAt = 0
    /\ ltpInflight = <<>>
    /\ liveData = ChainQuote
    /\ ltpClock = MountTime
    /\ ltpTimerAt = Null
    /\ ltpFetchedAt = Null

\* ---- the analytics as a function of the state a render finds ----

\* the render after the state was set: the memo is computed from the state,
\* the journal effect runs on it
Render ==
    /\ analyticsView' = AnalyticsOf(historyRows, pcr3mSeries, pcr5mSeries, data,
                                    IstMinuteOfDay(clock))
    /\ LET after == JournalStep(analyticsView', signalJournal, lastJournalKeyRef, clock)
       IN  /\ signalJournal' = after.journal
           /\ lastJournalKeyRef' = after.lastKey
    /\ UNCHANGED <<clockOriginIst, legacyTrend>>
    /\ UNCHANGED pcrVars
    /\ UNCHANGED chainVars
    /\ UNCHANGED lifeVars

\* Time of the i-th record of a buffer
TimeOf(i) ==
    CASE i = 1 -> "09:15" [] i = 2 -> "09:18" [] i = 3 -> "09:21"
      [] i = 4 -> "09:24" [] OTHER -> "09:27"

\* a buffer whose records carry the ratios `points` (Null: no ratio) and, then,
\* the record `last`; the records arrived three minutes apart
BufferOf(points, last) ==
    [i \in 1..(Len(points) + 1) |->
        LET row == IF i <= Len(points)
                   THEN PcrRecord(Str(TimeOf(i)),
                                  IF points[i] = Null THEN Undefined ELSE Num(points[i]))
                   ELSE last
        IN  [key |-> buildRowKey(row), row |-> row, seenAt |-> (i - 1) * THREE_MIN_MS]]

\* a series of samples of the values, `periodMs` apart
SeriesOf(values, periodMs) ==
    [i \in 1..Len(values) |-> [at |-> (i - 1) * periodMs, value |-> values[i]]]

\* series that make a window pending (neutral), bullish and bearish
TonePool == {<<60>>, <<60, 80>>, <<80, 60>>}

\* the ratio of the latest record: unknown, the bounds of the two zones, between
RatioPool == {Undefined, Num(75), Str("0.80"), Num(125)}

\* the two OI-flow legs of the latest record, put leg first: close to each
\* other, at 1.15 and just below, the call leg the larger, a negative put leg,
\* and a leg that is 0
FlowPool == { <<Str("1.2 L"), Str("1.1 L")>>, <<Str("115"), Str("100")>>,
              <<Str("114"), Str("100")>>, <<Str("100"), Str("115")>>,
              <<Str("-115"), Str("100")>>, <<Str("1.5 l"), Num(0)>> }

BuildUpPool == {"", "Long Bullish", "bearish", "bullish bearish"}
VwapPool == {"", "Above", "below"}

\* minutes of the day on both sides of each bound of the sessions
SessionPool == { OpeningStart - 1, OpeningStart, TrendStart - 1, TrendStart,
                 LateStart - 1, LateStart, LateEnd, LateEnd + 1 }

\* the score: every latest record, text and session, over a buffer of one record
InitScore ==
    /\ \E ratio \in RatioPool, flow \in FlowPool :
          historyRows = BufferOf(<<>>, PcrRecordFlow(Str("09:30"), ratio, flow[1], flow[2]))
    /\ \E values \in TonePool : pcr3mSeries = SeriesOf(values, THREE_MIN_MS)
    /\ \E values \in TonePool : pcr5mSeries = SeriesOf(values, FIVE_MIN_MS)
    /\ \E buildUpSignal \in BuildUpPool, vwapSignal \in VwapPool :
          data = [loaded |-> TRUE, underlying |-> 2500000,
                  buildUpSignal |-> buildUpSignal, vwapSignal |-> vwapSignal]
    /\ clockOriginIst \in SessionPool
    /\ legacyTrend = NoTrendViews
    /\ clock = 0
    /\ error = ""
    /\ last3mSampleAtRef = pcr3mSeries[Len(pcr3mSeries)].at
    /\ last5mSampleAtRef = pcr5mSeries[Len(pcr5mSeries)].at
    /\ pcrInflight = <<>>
    /\ analyticsView = NoView
    /\ signalJournal = <<>>
    /\ lastJournalKeyRef = ""
    /\ chainData = <<>>
    /\ prevChainData = <<>>
    /\ highlights = <<>>
    /\ chainInflight = <<>>
    /\ nextCallHighlights = <<>>
    /\ nextPutHighlights = <<>>
    /\ lastTick = "none"
    /\ thresholdEnv = Undefined
    /\ pcrMounted = TRUE
    /\ chainMounted = FALSE
    /\ activeExpiry = "near"
    /\ lastLtpAt = 0
    /\ ltpInflight = <<>>
    /\ liveData = ChainQuote
    /\ ltpClock = MountTime
    /\ ltpTimerAt = Null
    /\ ltpFetchedAt = Null

SpecScore == InitScore /\ [][Render]_vars

\* ---- a latest record that points nowhere: a ratio that is missing, empty,
\* ---- blank, a text, or between the zones (0.75 is the bound of the low zone);
\* ---- OI-flow legs close to each other (the third pair is 1.15 apart); texts
\* ---- without the four words
NeutralRatioPool == { Undefined, Str(""), Str(" "), Str("abc"), Str("0.80"),
                      Num(76), Num(124), Num(75) }
NeutralFlowPool == { <<Str("1.2 L"), Str("1.1 L")>>, <<Str("114"), Str("100")>>,
                     <<Str("115"), Str("100")>> }
NeutralBuildUpPool == {"", "Long Unwinding"}
NeutralVwapPool == {"", "At VWAP"}

InitNeutral ==
    /\ \E ratio \in NeutralRatioPool, flow \in NeutralFlowPool :
          historyRows = BufferOf(<<>>, PcrRecordFlow(Str("09:30"), ratio, flow[1], flow[2]))
    /\ \E values \in TonePool : pcr3mSeries = SeriesOf(values, THREE_MIN_MS)
    /\ \E values \in TonePool : pcr5mSeries = SeriesOf(values, FIVE_MIN_MS)
    /\ \E buildUpSignal \in NeutralBuildUpPool, vwapSignal \in NeutralVwapPool :
          data = [loaded |-> TRUE, underlying |-> 2500000,
                  buildUpSignal |-> buildUpSignal, vwapSignal |-> vwapSignal]
    /\ clockOriginIst \in SessionPool
    /\ legacyTrend = NoTrendViews
    /\ clock = 0
    /\ error = ""
    /\ last3mSampleAtRef = pcr3mSeries[Len(pcr3mSeries)].at
    /\ last5mSampleAtRef = pcr5mSeries[Len(pcr5mSeries)].at
    /\ pcrInflight = <<>>
    /\ analyticsView = NoView
    /\ signalJournal = <<>>
    /\ lastJournalKeyRef = ""
    /\ chainData = <<>>
    /\ prevChainData = <<>>
    /\ highlights = <<>>
    /\ chainInflight = <<>>
    /\ nextCallHighlights = <<>>
    /\ nextPutHighlights = <<>>
    /\ lastTick = "none"
    /\ thresholdEnv = Undefined
    /\ pcrMounted = TRUE
    /\ chainMounted = FALSE
    /\ activeExpiry = "near"
    /\ lastLtpAt = 0
    /\ ltpInflight = <<>>
    /\ liveData = ChainQuote
    /\ ltpClock = MountTime
    /\ ltpTimerAt = Null
    /\ ltpFetchedAt = Null

SpecNeutral == InitNeutral /\ [][Render]_vars

\* the ratios of the records before the latest one: none; flat; a range of
\* 0.08 (1.08 - 1 is not below 0.08 in binary floating point either, while
\* 1 - 0.92 is); a wide range without a direction; three steps up; a wide
\* range left of the regime's window; a record without ratio among steps up
PrefixPool == { <<>>, <<100, 100, 100>>, <<100, 104, 108>>, <<70, 100, 100>>,
                <<80, 90, 95>>, <<130, 100, 100, 100>>, <<88, Null, 94>> }

\* regime, direction and checklist: every buffer of PrefixPool under every
\* pair of tones, ratio of the latest record and text, in the four sessions
InitChecklist ==
    /\ \E points \in PrefixPool, ratio \in RatioPool :
          historyRows = BufferOf(points, PcrRecord(Str("09:30"), ratio))
    /\ \E values \in TonePool : pcr3mSeries = SeriesOf(values, THREE_MIN_MS)
    /\ \E values \in TonePool : pcr5mSeries = SeriesOf(values, FIVE_MIN_MS)
    /\ \E buildUpSignal \in BuildUpPool, vwapSignal \in VwapPool :
          data = [loaded |-> TRUE, underlying |-> 2500000,
                  buildUpSignal |-> buildUpSignal, vwapSignal |-> vwapSignal]
    /\ clockOriginIst \in {OpeningStart, TrendStart, LateStart, LateEnd + 1}
    /\ legacyTrend = NoTrendViews
    /\ clock = 0
    /\ error = ""
    /\ last3mSampleAtRef = pcr3mSeries[Len(pcr3mSeries)].at
    /\ last5mSampleAtRef = pcr5mSeries[Len(pcr5mSeries)].at
    /\ pcrInflight = <<>>
    /\ analyticsView = NoView
    /\ signalJournal = <<>>
    /\ lastJournalKeyRef = ""
    /\ chainData = <<>>
    /\ prevChainData = <<>>
    /\ highlights = <<>>
    /\ chainInflight = <<>>
    /\ nextCallHighlights = <<>>
    /\ nextPutHighlights = <<>>
    /\ lastTick = "none"
    /\ thresholdEnv = Undefined
    /\ pcrMounted = TRUE
    /\ chainMounted = FALSE
    /\ activeExpiry = "near"
    /\ lastLtpAt = 0
    /\ ltpInflight = <<>>
    /\ liveData = ChainQuote
    /\ ltpClock = MountTime
    /\ ltpTimerAt = Null
    /\ ltpFetchedAt = Null

SpecChecklist == InitChecklist /\ [][Render]_vars

\* ---- the older classifier as a function of the buffer a render finds

\* the render of the component of src/frontend/src/app/PcrTableClient.tsx: the
\* memo is computed from the history buffer
LegacyRender ==
    /\ legacyTrend' = LegacyTrendViews(historyRows)
    /\ UNCHANGED <<analyticsView, signalJournal, lastJournalKeyRef, clockOriginIst>>
    /\ UNCHANGED pcrVars
    /\ UNCHANGED chainVars
    /\ UNCHANGED lifeVars

\* ratios in the low zone, between the zones and in the high zone
LegacyRatios == {30, 50, 100, 150, 180}

\* the buffers of one to three records, three minutes apart, with these ratios
InitLegacy ==
    /\ \E values \in SeqsUpTo(LegacyRatios, 3) \ {<<>>} :
          historyRows = BufferOf(SubSeq(values, 1, Len(values) - 1),
                                 PcrRecord(Str("09:30"), Num(values[Len(values)])))
    /\ legacyTrend = NoTrendViews
    /\ data = [loaded |-> TRUE, underlying |-> 2500000, buildUpSignal |-> "", vwapSignal |-> ""]
    /\ error = ""
    /\ pcr3mSeries = <<>>
    /\ pcr5mSeries = <<>>
    /\ last3mSampleAtRef = Null
    /\ last5mSampleAtRef = Null
    /\ pcrInflight = <<>>
    /\ clock = 0
    /\ analyticsView = NoView
    /\ signalJournal = <<>>
    /\ lastJournalKeyRef = ""
    /\ clockOriginIst = TrendStart
    /\ chainData = <<>>
    /\ prevChainData = <<>>
    /\ highlights = <<>>
    /\ chainInflight = <<>>
    /\ nextCallHighlights = <<>>
    /\ nextPutHighlights = <<>>
    /\ lastTick = "none"
    /\ thresholdEnv = Undefined
    /\ pcrMounted = TRUE
    /\ chainMounted = FALSE
    /\ activeExpiry = "near"
    /\ lastLtpAt = 0
    /\ ltpInflight = <<>>
    /\ liveData = ChainQuote
    /\ ltpClock = MountTime
    /\ ltpTimerAt = Null
    /\ ltpFetchedAt = Null

SpecLegacy == InitLegacy /\ [][LegacyRender]_vars

\* ---- the field lookup: one strike, the call leg missing or with several
\* ---- candidate fields
PickLegs == { Undefined, JsNull, LegBlankFirst, LegTextFirst, LegNullFirst,
              LegTwoNumbers, LegZeroFirst, LegNoNumber, Leg115 }

PickChains == { <<[strike |-> StrikeLow, call |-> c, put |-> Leg100]>> : c \in PickLegs }

InitPick ==
    /\ chainData \in PickChains
    /\ prevChainData = <<>>
    /\ highlights = <<>>
    /\ chainInflight = <<>>
    /\ nextCallHighlights = <<>>
    /\ nextPutHighlights = <<>>
    /\ lastTick = "none"
    /\ thresholdEnv = Undefined
    /\ data = NoData
    /\ historyRows = <<>>
    /\ error = ""
    /\ pcr3mSeries = <<>>
    /\ pcr5mSeries = <<>>
    /\ last3mSampleAtRef = Null
    /\ last5mSampleAtRef = Null
    /\ pcrInflight = <<>>
    /\ clock = 0
    /\ analyticsView = NoView
    /\ signalJournal = <<>>
    /\ lastJournalKeyRef = ""
    /\ clockOriginIst = 9 * 60 + 57
    /\ legacyTrend = NoTrendViews
    /\ pcrMounted = FALSE
    /\ chainMounted = TRUE
    /\ activeExpiry = "near"
    /\ lastLtpAt = 0
    /\ ltpInflight = <<>>
    /\ liveData = ChainQuote
    /\ ltpClock = MountTime
    /\ ltpTimerAt = Null
    /\ ltpFetchedAt = Null

NextPick ==
    \/ TickStart(1)
    \/ \E nextChain \in PickChains : TickApply(1, nextChain)
    \/ TickFail(1)

SpecPick == InitPick /\ [][NextPick]_vars

\* ---- the option-chain poll, one request at a time ----
NextChain ==
    \/ TickStart(1)
    \/ \E nextChain \in Chains : TickApply(1, nextChain)
    \/ TickFail(1)

SpecChain == InitChain /\ [][NextChain]_vars

\* ---- the poll with overlapping requests and failures ----
PollResponses ==
    { PcrResponse(records, underlying) :
        records \in SeqsUpTo({RecHistA, RecHistC}, 1),
        underlying \in {2500000, 2510000} }

NextPcr ==
    \/ \E next \in PollResponses : LoadStart(MaxInflight, next)
    \/ \E i \in 1..MaxInflight, now \in {0, THREE_MIN_MS} : LoadApply(i, now)
    \/ \E i \in 1..MaxInflight : LoadFail(i)

SpecPcr == InitPcr /\ [][NextPcr]_vars

\* ---- the history buffer: one request at a time, every batch, and a clock that
\* ---- never goes back and may stand still between two responses
HistoryResponses == {PcrResponse(records, 2500000) : records \in Batches}

NextHistory ==
    \/ \E next \in HistoryResponses : LoadStart(1, next)
    \/ \E now \in {0, 1} : now >= clock /\ LoadApply(1, now)

SpecHistory == InitPcr /\ [][NextHistory]_vars

\* ---- the window sampler: one record per response; any clock reading may follow
\* ---- any other
SamplerResponses == {PcrResponse(<<r>>, 2500000) : r \in SamplerPool}

NextSampler ==
    \/ \E next \in SamplerResponses : LoadStart(1, next)
    \/ \E now \in ClockValues : LoadApply(1, now)

SpecSampler == InitPcr /\ [][NextSampler]_vars

\* ---- the signal journal: one request at a time; a response carries no record
\* ---- or one, and the two texts; the clock never goes back
RecLate == PcrRecord(Str("09:21"), Str("0.80"))

JournalResponses ==
    { PcrResponseSignals(records, 2500000, texts[1], texts[2]) :
        records \in SeqsUpTo({RecHistA, RecHistC, RecLate}, 1),
        texts \in {<<"", "">>, <<"Long Bullish", "Above">>} }

\* the readings of the clock: both windows sample at the second, the 3m window
\* alone at the third
JournalClock == {0, FIVE_MIN_MS, FIVE_MIN_MS + THREE_MIN_MS}

NextJournal ==
    \/ \E next \in JournalResponses : LoadStart(1, next)
    \/ \E now \in JournalClock : now >= clock /\ LoadApply(1, now)

SpecJournal == InitPcr /\ [][NextJournal]_vars

\* ---- records whose ratio is no number: one record per response, the clock
\* ---- never goes back
MalformedResponses ==
    { PcrResponse(<<r>>, 2500000) :
        r \in {RecFlatA, RecNoRatio, RecEmptyRatio, RecBlankRatio, RecTextRatio} }

NextMalformed ==
    \/ \E next \in MalformedResponses : LoadStart(1, next)
    \/ \E now \in {0, THREE_MIN_MS} : now >= clock /\ LoadApply(1, now)

SpecMalformed == InitPcr /\ [][NextMalformed]_vars

\* ---- the pending windows: polls with one record or none and the two texts;
\* ---- the 3m window may sample at the second reading of the clock while the
\* ---- 5m window waits for the third
PendingResponses ==
    { PcrResponseSignals(records, 2500000, texts[1], texts[2]) :
        records \in SeqsUpTo({RecHistA, RecHistC}, 1),
        texts \in {<<"", "">>, <<"Long Bullish", "Above">>} }

NextPending ==
    \/ \E next \in PendingResponses : LoadStart(1, next)
    \/ \E now \in {0, THREE_MIN_MS, FIVE_MIN_MS} : now >= clock /\ LoadApply(1, now)

SpecPending == InitPcr /\ [][NextPending]_vars

\* ---- the strike plan over polls: as the journal's polls, without texts; the
\* ---- body carries a number as `underlying` or none (Null)
PlanResponses ==
    { PcrResponse(records, underlying) :
        records \in SeqsUpTo({RecHistA, RecHistC, RecLate}, 1),
        underlying \in {Null, 2500000, 2512300} }

NextPlan ==
    \/ \E next \in PlanResponses : LoadStart(1, next)
    \/ \E now \in JournalClock : now >= clock /\ LoadApply(1, now)

SpecPlan == InitPcr /\ [][NextPlan]_vars

\* ---- the strike plan as a function of the state a render finds: spots on a
\* ---- multiple of the step, one hundredth beside it, between two multiples,
\* ---- below the offset, and no spot
UnderlyingPool ==
    {Null, 0, 15000, 2499999, 2500000, 2500001, 2512345, 2520000}

InitStrike ==
    /\ \E ratio \in RatioPool :
          historyRows = BufferOf(<<>>, PcrRecord(Str("09:30"), ratio))
    /\ \E values \in TonePool : pcr3mSeries = SeriesOf(values, THREE_MIN_MS)
    /\ \E values \in TonePool : pcr5mSeries = SeriesOf(values, FIVE_MIN_MS)
    /\ \E underlying \in UnderlyingPool :
          data = [loaded |-> TRUE, underlying |-> underlying,
                  buildUpSignal |-> "", vwapSignal |-> ""]
    /\ clockOriginIst \in {TrendStart, LateStart}
    /\ legacyTrend = NoTrendViews
    /\ clock = 0
    /\ error = ""
    /\ last3mSampleAtRef = pcr3mSeries[Len(pcr3mSeries)].at
    /\ last5mSampleAtRef = pcr5mSeries[Len(pcr5mSeries)].at
    /\ pcrInflight = <<>>
    /\ analyticsView = NoView
    /\ signalJournal = <<>>
    /\ lastJournalKeyRef = ""
    /\ chainData = <<>>
    /\ prevChainData = <<>>
    /\ highlights = <<>>
    /\ chainInflight = <<>>
    /\ nextCallHighlights = <<>>
    /\ nextPutHighlights = <<>>
    /\ lastTick = "none"
    /\ thresholdEnv = Undefined
    /\ pcrMounted = TRUE
    /\ chainMounted = FALSE
    /\ activeExpiry = "near"
    /\ lastLtpAt = 0
    /\ ltpInflight = <<>>
    /\ liveData = ChainQuote
    /\ ltpClock = MountTime
    /\ ltpTimerAt = Null
    /\ ltpFetchedAt = Null

SpecStrike == InitStrike /\ [][Render]_vars

\* ---- the trend of a window as a function of its series: series of up to four
\* ---- samples (the windows of the source hold up to 600; four samples tell
\* ---- near-monotonic from not).  One sample.  Low zone: a rise of 0.20, none,
\* ---- 0.10 against a falling slope, 0.09, the zone's bound 0.75, a rise after
\* ---- a dip.  High zone: a drop of 0.30, none, the zone's bound 1.25, a drop
\* ---- of 0.10, a drop of 0.05 against a rising slope.  Between the zones:
\* ---- slopes of 0.05, 0.08 and 0.10 both ways, a slope of 0.03 after a peak,
\* ---- two steps up of three and one of three, a step of 0.01 and a step of
\* ---- 0, one step of two up and flat first, two steps down of three, and the
\* ---- two series of a rise from 0.60 to 0.80.  The differences are the same
\* ---- in binary floating point
\* ---- (0.4 - 0.3, 1.08 - 1, 1.1 - 1 and 1.01 - 1 are not below 0.1, 0.08, 0.1
\* ---- and 0.01; 1.4 - 1.5 is not above -0.1).
TrendPool ==
    { <<60>>,
      <<30, 50>>, <<80, 60>>, <<50, 30, 40>>, <<60, 69>>, <<50, 75>>, <<60, 50, 70>>,
      <<180, 150>>, <<100, 130>>, <<150, 125>>, <<150, 140>>, <<130, 150, 145>>,
      <<100, 105>>, <<100, 108>>, <<108, 100>>, <<100, 110>>, <<110, 100>>,
      <<100, 120, 103>>, <<100, 90, 95, 115>>, <<100, 90, 85, 115>>,
      <<100, 101, 101, 112>>, <<100, 100, 100, 112>>, <<100, 95, 110>>,
      <<100, 100, 110>>, <<115, 100, 100, 88>>,
      <<60, 68, 74, 80>>, <<60, 80>> }

InitTrend ==
    /\ \E ratio \in {Str("0.80"), Num(100)} :
          historyRows = BufferOf(<<>>, PcrRecord(Str("09:30"), ratio))
    /\ \E values \in TrendPool : pcr3mSeries = SeriesOf(values, THREE_MIN_MS)
    /\ \E values \in TrendPool : pcr5mSeries = SeriesOf(values, FIVE_MIN_MS)
    /\ data = [loaded |-> TRUE, underlying |-> 2500000,
               buildUpSignal |-> "", vwapSignal |-> ""]
    /\ clockOriginIst = TrendStart
    /\ legacyTrend = NoTrendViews
    /\ clock = 0
    /\ error = ""
    /\ last3mSampleAtRef = pcr3mSeries[Len(pcr3mSeries)].at
    /\ last5mSampleAtRef = pcr5mSeries[Len(pcr5mSeries)].at
    /\ pcrInflight = <<>>
    /\ analyticsView = NoView
    /\ signalJournal = <<>>
    /\ lastJournalKeyRef = ""
    /\ chainData = <<>>
    /\ prevChainData = <<>>
    /\ highlights = <<>>
    /\ chainInflight = <<>>
    /\ nextCallHighlights = <<>>
    /\ nextPutHighlights = <<>>
    /\ lastTick = "none"
    /\ thresholdEnv = Undefined
    /\ pcrMounted = TRUE
    /\ chainMounted = FALSE
    /\ activeExpiry = "near"
    /\ lastLtpAt = 0
    /\ ltpInflight = <<>>
    /\ liveData = ChainQuote
    /\ ltpClock = MountTime
    /\ ltpTimerAt = Null
    /\ ltpFetchedAt = Null

SpecTrend == InitTrend /\ [][Render]_vars

\* ---- failures: both pages are polled, one request each at a time; either
\* ---- fetch may fail; the clock never goes back
FailureResponses == {PcrResponse(<<r>>, 2500000) : r \in {RecHistA, RecHistC}}

FailureChains ==
    { lo \o hi : lo \in RowsAt(StrikeLow, {<<Leg100, Leg100>>, <<Leg115, Leg100>>}),
                 hi \in RowsAt(StrikeHigh, {<<Leg100, Leg100>>}) }

InitFailure ==
    /\ data = NoData
    /\ historyRows = <<>>
    /\ error = ""
    /\ pcr3mSeries = <<>>
    /\ pcr5mSeries = <<>>
    /\ last3mSampleAtRef = Null
    /\ last5mSampleAtRef = Null
    /\ pcrInflight = <<>>
    /\ clock = 0
    /\ chainData \in FailureChains
    /\ prevChainData = <<>>
    /\ highlights = <<>>
    /\ chainInflight = <<>>
    /\ nextCallHighlights = <<>>
    /\ nextPutHighlights = <<>>
    /\ lastTick = "none"
    /\ thresholdEnv = Undefined
    /\ analyticsView = NoView
    /\ signalJournal = <<>>
    /\ lastJournalKeyRef = ""
    /\ clockOriginIst = 9 * 60 + 57
    /\ legacyTrend = NoTrendViews
    /\ pcrMounted = TRUE
    /\ chainMounted = TRUE
    /\ activeExpiry = "near"
    /\ lastLtpAt = 0
    /\ ltpInflight = <<>>
    /\ liveData = ChainQuote
    /\ ltpClock = MountTime
    /\ ltpTimerAt = Null
    /\ ltpFetchedAt = Null

NextFailure ==
    \/ \E next \in FailureResponses : LoadStart(1, next)
    \/ \E now \in {0, THREE_MIN_MS} : now >= clock /\ LoadApply(1, now)
    \/ LoadFail(1)
    \/ TickStart(1)
    \/ \E nextChain \in FailureChains : TickApply(1, nextChain)
    \/ TickFail(1)

SpecFailure == InitFailure /\ [][NextFailure]_vars

\* ---- the live price: the page of the option chain after its mount effects
\* ---- (the initial-data effect has called loadLtp, the interval is set);
\* ---- the prop initialData may change at any time
LtpChains ==
    { lo \o hi : lo \in RowsAt(StrikeLow, {<<Leg100, Leg100>>}),
                 hi \in RowsAt(StrikeHigh, {<<Leg100, Leg100>>}) } \ {<<>>}

LtpPrices == {Null, 2400000, 2410000}

InitLtp ==
    /\ data = NoData
    /\ historyRows = <<>>
    /\ error = ""
    /\ pcr3mSeries = <<>>
    /\ pcr5mSeries = <<>>
    /\ last3mSampleAtRef = Null
    /\ last5mSampleAtRef = Null
    /\ pcrInflight = <<>>
    /\ clock = 0
    /\ chainData \in LtpChains
    /\ prevChainData = <<>>
    /\ highlights = <<>>
    /\ chainInflight = <<>>
    /\ nextCallHighlights = <<>>
    /\ nextPutHighlights = <<>>
    /\ lastTick = "none"
    /\ thresholdEnv = Undefined
    /\ analyticsView = NoView
    /\ signalJournal = <<>>
    /\ lastJournalKeyRef = ""
    /\ clockOriginIst = 9 * 60 + 57
    /\ legacyTrend = NoTrendViews
    /\ pcrMounted = FALSE
    /\ chainMounted = TRUE
    /\ activeExpiry = "near"
    /\ lastLtpAt = 0
    /\ ltpInflight = <<[now |-> MountTime, restarted |-> FALSE]>>
    /\ liveData = ChainQuote
    /\ ltpClock = MountTime
    /\ ltpTimerAt = MountTime + LtpIntervalMs
    /\ ltpFetchedAt = MountTime

NextLtp ==
    \/ LtpTimerFires
    \/ \E expiry \in {"near", "far"}, chain \in LtpChains : InitialDataEffect(expiry, chain)
    \/ \E i \in 1..MaxLtpInflight, underlying \in LtpPrices :
          LtpApply(i, underlying, Null)
    \/ \E i \in 1..MaxLtpInflight : LtpFail(i)
    \/ Advance

SpecLtp == InitLtp /\ [][NextLtp]_vars

\* ---- teardown: both pages after their mount effects; either may be
\* ---- unmounted, and the option-chain poll restarted for the other expiry,
\* ---- with fetches of the three polls in flight; the clock runs until the
\* ---- first firing of the LTP timer
TeardownResponses == {PcrResponse(<<RecHistA>>, 2500000)}

InitTeardown ==
    /\ data = NoData
    /\ historyRows = <<>>
    /\ error = ""
    /\ pcr3mSeries = <<>>
    /\ pcr5mSeries = <<>>
    /\ last3mSampleAtRef = Null
    /\ last5mSampleAtRef = Null
    /\ pcrInflight = <<>>
    /\ clock = 0
    /\ chainData \in LtpChains
    /\ prevChainData = <<>>
    /\ highlights = <<>>
    /\ chainInflight = <<>>
    /\ nextCallHighlights = <<>>
    /\ nextPutHighlights = <<>>
    /\ lastTick = "none"
    /\ thresholdEnv = Undefined
    /\ analyticsView = NoView
    /\ signalJournal = <<>>
    /\ lastJournalKeyRef = ""
    /\ clockOriginIst = 9 * 60 + 57
    /\ legacyTrend = NoTrendViews
    /\ pcrMounted = TRUE
    /\ chainMounted = TRUE
    /\ activeExpiry = "near"
    /\ lastLtpAt = 0
    /\ ltpInflight = <<[now |-> MountTime, restarted |-> FALSE]>>
    /\ liveData = ChainQuote
    /\ ltpClock = MountTime
    /\ ltpTimerAt = MountTime + LtpIntervalMs
    /\ ltpFetchedAt = MountTime

NextTeardown ==
    \/ \E next \in TeardownResponses : LoadStart(1, next)
    \/ LoadApply(1, 0)
    \/ LoadDropped(1)
    \/ UnmountPcr
    \/ TickStart(1)
    \/ \E nextChain \in LtpChains : TickApply(1, nextChain)
    \/ TickDropped(1)
    \/ \E expiry \in {"near", "far"}, chain \in LtpChains : LoadExpiryApply(expiry, chain)
    \/ UnmountChain
    \/ LtpTimerFires
    \/ \E i \in 1..MaxLtpInflight : LtpApply(i, 2410000, Null)
    \/ \E i \in 1..MaxLtpInflight : LtpDropped(i)
    \/ ltpClock < MountTime + LtpIntervalMs /\ Advance

SpecTeardown == InitTeardown /\ [][NextTeardown]_vars

----------------------------------------------------------------------------
(* Claims about PcrTableClient.                                            *)

\* the response of in-flight request i was applied in this step
LoadApplied(i) ==
    /\ i \in 1..Len(pcrInflight)
    /\ pcrInflight' = RemoveAt(Supersede(pcrInflight, i), i)
    /\ error' = ""
    /\ data'.loaded

KeySeq(rows) == [i \in 1..Len(rows) |-> rows[i].key]

\* the keys of the records of recs that are not in seen, each once, in order
RECURSIVE Accepted(_, _)
Accepted(seen, recs) ==
    IF Len(recs) = 0 THEN <<>>
    ELSE LET k == buildRowKey(Head(recs))
         IN  IF k \in seen THEN Accepted(seen, Tail(recs))
             ELSE <<k>> \o Accepted(seen \cup {k}, Tail(recs))

\* C1 (as claimed): a response that completes after the response of a later
\* request has been applied is discarded: the snapshot and the history buffer
\* stay as they are.
C1_StaleLoadDiscarded ==
    [][\A i \in 1..Len(pcrInflight) :
          (pcrInflight[i].stale /\ LoadApplied(i))
              => (data' = data /\ historyRows' = historyRows)]_vars

Spaced(series, periodMs) ==
    \A i \in 1..(Len(series) - 1) :
        /\ series[i + 1].at > series[i].at
        /\ series[i + 1].at - series[i].at >= periodMs

\* C2: in each window series the sampled timestamps are strictly increasing and
\* consecutive samples are at least the window's period apart, whatever the
\* arrival timestamps.
C2_SamplesSpaced ==
    /\ Spaced(pcr3mSeries, THREE_MIN_MS)
    /\ Spaced(pcr5mSeries, FIVE_MIN_MS)

\* both series hold two samples, and the 3m series has already evicted one
C2_Witness ==
    /\ Len(pcr3mSeries) = 2
    /\ Len(pcr5mSeries) = 2
    /\ pcr3mSeries[1].at > pcr5mSeries[1].at

DifferOnlyInTime(r1, r2) ==
    /\ r1["Time"] # r2["Time"]
    /\ \A h \in HeaderSet \ {"Time"} : r1[h] = r2[h]

C4_KeysUnique ==
    \A i, j \in 1..Len(historyRows) :
        i # j => historyRows[i].key # historyRows[j].key

\* the buffer is full, filled by two different merges
C4_Witness ==
    /\ Len(historyRows) = HISTORY_MAX_ROWS
    /\ historyRows[1].seenAt = historyRows[HISTORY_MAX_ROWS].seenAt

\* C5: the buffer never exceeds its cap and eviction is FIFO: after an append
\* the buffer holds min(cap, old length + accepted) records, the kept old
\* records are the newest of the old ones in their order, and the newest
\* accepted record is the last of the buffer.
C5_BoundedFifo ==
    [][/\ Len(historyRows') <= HISTORY_MAX_ROWS
       /\ \A i \in 1..Len(pcrInflight) :
            LoadApplied(i) =>
              LET acc == Accepted(KeysOf(historyRows),
                                  LastN(MAX_ROWS, pcrInflight[i].next.records))
                  total == Len(historyRows) + Len(acc)
                  kept == IF total <= HISTORY_MAX_ROWS THEN Len(historyRows)
                          ELSE HISTORY_MAX_ROWS - Len(acc)
              IN  /\ Len(historyRows') =
                        (IF total <= HISTORY_MAX_ROWS THEN total ELSE HISTORY_MAX_ROWS)
                  /\ SubSeq(historyRows', 1, kept) =
                        SubSeq(historyRows, Len(historyRows) - kept + 1, Len(historyRows))
                  /\ Len(acc) > 0 => historyRows'[Len(historyRows')].key = acc[Len(acc)]
      ]_vars

\* the buffer is full and the row the first sample was taken from is gone
C5_Witness ==
    /\ Len(historyRows) = HISTORY_MAX_ROWS
    /\ Len(pcr3mSeries) > 0
    /\ \A i \in 1..Len(historyRows) : historyRows[i].seenAt # pcr3mSeries[1].at

\* C6 (as claimed): an append stores every record of the batch whose key is
\* not in the buffer, in the batch's order, whatever the length of the batch,
\* subject only to the cap.
C6_EveryUnseenStored ==
    [][\A i \in 1..Len(pcrInflight) :
          LoadApplied(i) =>
             KeySeq(historyRows') =
                LastN(HISTORY_MAX_ROWS,
                      KeySeq(historyRows) \o
                      Accepted(KeysOf(historyRows), pcrInflight[i].next.records))]_vars

\* C6 (amended): an append stores every record among the last MAX_ROWS records
\* of the batch whose key is not in the buffer, in the batch's order, subject
\* only to the cap; earlier records of a longer batch are not looked at.
C6_UnseenOfLastRowsStored ==
    [][\A i \in 1..Len(pcrInflight) :
          LoadApplied(i) =>
             KeySeq(historyRows') =
                LastN(HISTORY_MAX_ROWS,
                      KeySeq(historyRows) \o
                      Accepted(KeysOf(historyRows),
                               LastN(MAX_ROWS, pcrInflight[i].next.records)))]_vars

\* two records of one batch were stored in the batch's order
C6_Witness ==
    /\ Len(historyRows) = 2
    /\ historyRows[1].seenAt = clock
    /\ historyRows[2].seenAt = clock + 1
    /\ historyRows[1].row = RecHistB
    /\ historyRows[2].row = RecHistA

\* C7 (as claimed): under a clock that never goes back the arrival timestamps
\* are strictly increasing from the oldest to the newest record.
C7_SeenAtStrictlyIncreasing ==
    \A i \in 1..(Len(historyRows) - 1) :
        historyRows[i].seenAt < historyRows[i + 1].seenAt

----------------------------------------------------------------------------
(* The highlight engine of the option chain.                               *)

\* a step in which a successful tick response is applied
TickApplied == Len(chainInflight') < Len(chainInflight) /\ lastTick' = "applied"

Legs == {"call", "put"}

\* the marks the last applied tick computed for a leg
NewMarks(leg) == IF leg = "call" THEN nextCallHighlights ELSE nextPutHighlights

OtherLeg(leg) == IF leg = "call" THEN "put" ELSE "call"

\* C8: a leg for which the applied tick computed no new mark has, after the
\* merge, exactly the highlights it had before the tick (same strikes, same
\* classes), whether or not the other leg got new marks.
C8_CarryForward ==
    [][TickApplied =>
         \A leg \in Legs :
            NewMarks(leg)' = <<>> =>
               LegMap(highlights', leg) = LegMap(highlights, leg)]_vars

\* the last tick marked one leg and not the other, and the other still shows
\* the highlights of an earlier tick
C8_Witness ==
    /\ lastTick = "applied"
    /\ \E leg \in Legs :
          /\ NewMarks(leg) # <<>>
          /\ NewMarks(OtherLeg(leg)) = <<>>
          /\ LegMap(highlights, OtherLeg(leg)) # <<>>

\* C9: a leg for which the applied tick computed at least one new mark has,
\* after the merge, exactly the new marks of this tick as its highlights:
\* earlier highlights of the leg on other strikes are gone, whatever the other
\* leg does.
C9_Replacement ==
    [][TickApplied =>
         \A leg \in Legs :
            NewMarks(leg)' # <<>> =>
               LegMap(highlights', leg) = NewMarks(leg)']_vars

\* the last tick marked a leg on one strike only, and the other leg is
\* highlighted on a strike where this leg is not
C9_Witness ==
    /\ lastTick = "applied"
    /\ \E leg \in Legs :
          /\ NewMarks(leg) # <<>>
          /\ LegMap(highlights, leg) = NewMarks(leg)
          /\ \E k \in DOMAIN highlights :
                /\ k \notin DOMAIN NewMarks(leg)
                /\ LegOf(highlights[k], OtherLeg(leg)) # ""

HasStrike(chain, strike) == \E i \in 1..Len(chain) : chain[i].strike = strike

RowAt(chain, strike) == chain[CHOOSE i \in 1..Len(chain) : chain[i].strike = strike]

\* the mark the rule gives for a previous and a current OI change, with the
\* default threshold 0.15: the ratio is (current - previous) / |previous|, 0
\* for 0 -> 0, and plus or minus infinity for 0 -> a positive or negative value
ExpectedMark(previous, current) ==
    IF previous = 0
    THEN (IF current > 0 THEN "highlight-green"
          ELSE IF current < 0 THEN "highlight-red" ELSE "")
    ELSE IF 100 * (current - previous) >= 15 * Abs(previous) THEN "highlight-green"
    ELSE IF 100 * (current - previous) <= -15 * Abs(previous) THEN "highlight-red"
    ELSE ""

MarkOf(marks, key) == IF key \in DOMAIN marks THEN marks[key] ELSE ""

DefaultThreshold == thresholdEnv \in {Undefined, Str("abc")}

\* C10: with the default threshold, a tick marks each leg of each strike that is
\* in the previous and in the current chain, and whose OI change is known in
\* both, rising iff ratio >= 0.15, falling iff ratio <= -0.15 and not at all
\* otherwise; a strike that is not in the previous chain gets no mark.
C10_MarksFollowRatio ==
    [][(TickApplied /\ DefaultThreshold) =>
         \A leg \in Legs, strike \in {StrikeLow, StrikeHigh} :
            IF HasStrike(prevChainData, strike) /\ HasStrike(prevChainData', strike)
            THEN LET previous == oiChange(getMarket(Leg(RowAt(prevChainData, strike), leg)))
                     current == oiChange(getMarket(Leg(RowAt(prevChainData', strike), leg)))
                 IN  (previous # Null /\ current # Null) =>
                        MarkOf(NewMarks(leg)', StrikeKey(strike)) = ExpectedMark(previous, current)
            ELSE MarkOf(NewMarks(leg)', StrikeKey(strike)) = ""]_vars

\* under the default threshold the last tick marked the call of the lower
\* strike rising and its put falling, and left the upper strike, which the
\* current chain has, unmarked
C10_Witness ==
    /\ lastTick = "applied"
    /\ thresholdEnv = Undefined
    /\ HasStrike(prevChainData, StrikeHigh)
    /\ MarkOf(nextCallHighlights, StrikeKey(StrikeLow)) = "highlight-green"
    /\ MarkOf(nextPutHighlights, StrikeKey(StrikeLow)) = "highlight-red"
    /\ MarkOf(nextCallHighlights, StrikeKey(StrikeHigh)) = ""
    /\ MarkOf(nextPutHighlights, StrikeKey(StrikeHigh)) = ""

----------------------------------------------------------------------------
(* The composite score.                                                    *)

\* the latest record of the buffer
LatestRow == historyRows[Len(historyRows)].row

Tone3 == buildTrendView(pcr3mSeries, "3m").tone
Tone5 == buildTrendView(pcr5mSeries, "5m").tone

\* a text contains a word, whatever the case of its letters
ContainsWord(text, word) == includes(toLowerCase(Chars(text)), Chars(word))

\* the multiplier of a session, fixed-point
MultiplierOf(sessionName) ==
    CASE sessionName = "Opening Drive" -> 108
      [] sessionName = "Trend Window" -> 100
      [] sessionName = "Late Session" -> 92
      [] OTHER -> 85

\* round(clamp to [0,100] of (50 + a + z + flow + b + v) x m), with a, z, b, v
\* read from the state as the rule says and flow given
ExpectedScore(flow) ==
    LET a == IF Tone3 = "bullish" /\ Tone5 = "bullish" THEN 22
             ELSE IF Tone3 = "bearish" /\ Tone5 = "bearish" THEN -22 ELSE 0
        ratio == toNumeric(LatestRow[TREND_SOURCE])
        z == IF ratio = Null THEN 0
             ELSE IF ratio >= 125 THEN 10 ELSE IF ratio <= 75 THEN -10 ELSE 0
        b == (IF ContainsWord(data.buildUpSignal, "bullish") THEN 8 ELSE 0)
             + (IF ContainsWord(data.buildUpSignal, "bearish") THEN -8 ELSE 0)
        v == (IF ContainsWord(data.vwapSignal, "above") THEN 8 ELSE 0)
             + (IF ContainsWord(data.vwapSignal, "below") THEN -8 ELSE 0)
        raw == (50 + a + z + flow + b + v) * MultiplierOf(analyticsView.sessionName)
        clamped == IF raw < 0 THEN 0 ELSE IF raw > 10000 THEN 10000 ELSE raw
    IN  IF clamped % 100 >= 50 THEN clamped \div 100 + 1 ELSE clamped \div 100

PeLeg == OrZero(parseCompactVolume(LatestRow["PE OI Change (+-2)"]))
CeLeg == OrZero(parseCompactVolume(LatestRow["CE OI Change (+-2)"]))

\* neither leg is 1.15 times the other in magnitude
NeutralFlow ==
    /\ 100 * Abs(PeLeg) < 115 * Abs(CeLeg)
    /\ 100 * Abs(CeLeg) < 115 * Abs(PeLeg)

\* C13: whatever the trend tones, the latest ratio, the OI-flow legs, the two
\* texts and the session, the score of the analytics is an integer from 0 to 100.
C13_ScoreInRange ==
    analyticsView.present => analyticsView.score \in 0..100

\* every adjustment is at its highest in the opening session, and the score is
\* held at 100
C13_Witness ==
    /\ analyticsView.present
    /\ analyticsView.score = 100
    /\ analyticsView.sessionName = "Opening Drive"
    /\ Tone3 = "bullish" /\ Tone5 = "bullish"
    /\ data.buildUpSignal = "Long Bullish"
    /\ data.vwapSignal = "Above"

\* C14: with neutral OI flow the score is round(clamp((50 + a + z + b + v) x m)):
\* a = 22 / -22 for two bullish / bearish windows, z = 10 / -10 for a ratio >=
\* 1.25 / <= 0.75 and 0 for an unknown ratio, b and v = 8 / -8 for the words in
\* the two texts, m the multiplier of the session.
C14_ScoreFormula ==
    (analyticsView.present /\ NeutralFlow) => analyticsView.score = ExpectedScore(0)

\* no adjustment outside the session: 50 x 0.85 = 42.5 is rounded to 43
C14_Witness ==
    /\ analyticsView.present
    /\ NeutralFlow
    /\ analyticsView.sessionName = "Off Session"
    /\ analyticsView.score = 43

\* the adjustment the rule gives the OI flow: 10 in favour of the leg that is at
\* least 1.15 times the other in magnitude
FlowFavoursLargerLeg ==
    IF PeLeg = 0 /\ CeLeg = 0 THEN 0
    ELSE IF 100 * Abs(PeLeg) >= 115 * Abs(CeLeg) THEN 10
    ELSE IF 100 * Abs(CeLeg) >= 115 * Abs(PeLeg) THEN -10
    ELSE 0

\* C15 (as claimed): whenever one OI-flow leg is at least 1.15 times the other
\* in magnitude, in either direction, the score is adjusted by 10 in favour of
\* the larger leg, and it is not adjusted below 1.15.
C15_FlowAdjustsBothWays ==
    analyticsView.present => analyticsView.score = ExpectedScore(FlowFavoursLargerLeg)

----------------------------------------------------------------------------
(* Direction, regime and the checklist.                                    *)

\* C16: the direction is a total function of the score: BULLISH iff score >=
\* 62, BEARISH iff score <= 38, NO TRADE iff 39 <= score <= 61.
C16_DirectionOfScore ==
    analyticsView.present =>
        /\ analyticsView.direction \in {"BULLISH", "BEARISH", "NO TRADE"}
        /\ analyticsView.direction = "BULLISH" <=> analyticsView.score >= 62
        /\ analyticsView.direction = "BEARISH" <=> analyticsView.score <= 38
        /\ analyticsView.direction = "NO TRADE" <=> analyticsView.score \in 39..61

\* a score of exactly 62, from two bullish windows over a ratio in the low zone
C16_Witness ==
    /\ analyticsView.present
    /\ analyticsView.score = 62
    /\ analyticsView.direction = "BULLISH"

\* the numeric ratios of the buffer, oldest first
RECURSIVE NumericRatios(_)
NumericRatios(rows) ==
    IF Len(rows) = 0 THEN <<>>
    ELSE LET v == toNumeric(Head(rows).row[TREND_SOURCE])
         IN  (IF v = Null THEN <<>> ELSE <<v>>) \o NumericRatios(Tail(rows))

\* the regime the rule gives the last RegimeWindow numeric ratios of the buffer
ExpectedRegime ==
    LET all == NumericRatios(historyRows)
        pts == IF Len(all) > RegimeWindow
               THEN SubSeq(all, Len(all) - RegimeWindow + 1, Len(all)) ELSE all
        n == Len(pts)
    IN  IF n < 2 THEN "Rangebound"
        ELSE
          LET hi == CHOOSE x \in {pts[i] : i \in 1..n} : \A j \in 1..n : pts[j] <= x
              lo == CHOOSE x \in {pts[i] : i \in 1..n} : \A j \in 1..n : pts[j] >= x
              ups == Cardinality({i \in 1..(n - 1) : pts[i + 1] > pts[i]})
              downs == Cardinality({i \in 1..(n - 1) : pts[i + 1] < pts[i]})
              most == IF ups >= downs THEN ups ELSE downs
              net == pts[n] - pts[1]
          IN  IF hi - lo < 8 THEN "Rangebound"
              ELSE IF hi - lo > 22 /\ 10 * most < 6 * (n - 1) THEN "Volatile/Choppy"
              ELSE IF (net >= 12 \/ net <= -12) /\ 10 * most >= 7 * (n - 1) THEN "Trending"
              ELSE "Balanced"

\* C17: the regime is that of the last 20 (here RegimeWindow) numeric ratios of
\* the buffer, first match wins: range < 0.08 Rangebound; range > 0.22 and
\* consistency < 0.6 Volatile/Choppy; |latest - first| >= 0.12 and consistency
\* >= 0.7 Trending; else Balanced; Rangebound with fewer than 2 ratios.
C17_RegimeRule ==
    analyticsView.present => analyticsView.regime = ExpectedRegime

\* the buffer holds more numeric ratios than the window, and the one left of
\* the window would have made the regime Volatile/Choppy (130, 100, 100, 100,
\* 80 has a range of 0.50 and a consistency of 0.5)
C17_Witness ==
    /\ analyticsView.present
    /\ Len(NumericRatios(historyRows)) > RegimeWindow
    /\ NumericRatios(historyRows)[1] = 130
    /\ analyticsView.regime = "Balanced"

\* the tone of a window is that of the direction
SameSide(direction, tone) ==
    IF direction = "BULLISH" THEN tone = "bullish"
    ELSE IF direction = "BEARISH" THEN tone = "bearish"
    ELSE FALSE

\* C18: entryReady is true iff the direction is not NO TRADE, the regime is not
\* Volatile/Choppy and the tone of the 3m window is that of the direction.
C18_EntryReadyRule ==
    analyticsView.present =>
        (analyticsView.entryReady <=>
            /\ analyticsView.direction # "NO TRADE"
            /\ analyticsView.regime # "Volatile/Choppy"
            /\ SameSide(analyticsView.direction, Tone3))

\* a direction with the 3m window on its side, held back by the regime alone
C18_Witness ==
    /\ analyticsView.present
    /\ analyticsView.direction = "BULLISH"
    /\ Tone3 = "bullish"
    /\ analyticsView.regime = "Volatile/Choppy"
    /\ ~analyticsView.entryReady

\* C19: confirmed is true iff entryReady is true, the tone of the 5m window is
\* that of the direction too, and the two windows do not conflict; so confirmed
\* implies entryReady, and confirmed is false whenever the two tones differ.
C19_ConfirmedRule ==
    analyticsView.present =>
        /\ analyticsView.confirmed <=>
              /\ analyticsView.entryReady
              /\ SameSide(analyticsView.direction, Tone5)
              /\ Tone3 = Tone5
        /\ analyticsView.confirmed => analyticsView.entryReady
        /\ Tone3 # Tone5 => ~analyticsView.confirmed

\* entry-ready, and not confirmed because the 5m window is still pending
C19_Witness ==
    /\ analyticsView.present
    /\ analyticsView.entryReady
    /\ ~analyticsView.confirmed
    /\ Len(pcr5mSeries) < 2

\* C20: exitWarning is true for BULLISH iff the tone of the 3m window is bearish
\* or the score is below 50, for BEARISH iff that tone is bullish or the score
\* is above 50, and false for NO TRADE.
C20_ExitWarningRule ==
    analyticsView.present =>
        (analyticsView.exitWarning <=>
            \/ /\ analyticsView.direction = "BULLISH"
               /\ (Tone3 = "bearish" \/ analyticsView.score < 50)
            \/ /\ analyticsView.direction = "BEARISH"
               /\ (Tone3 = "bullish" \/ analyticsView.score > 50))

\* a BULLISH call against a bearish 3m window
C20_Witness ==
    /\ analyticsView.present
    /\ analyticsView.direction = "BULLISH"
    /\ Tone3 = "bearish"
    /\ analyticsView.exitWarning

----------------------------------------------------------------------------
(* The signal journal.                                                     *)

\* a response of the poll was applied in this step (a failed one sets error)
Ticked == Len(pcrInflight') < Len(pcrInflight) /\ error' = ""

\* the triple of a journal entry, as the key spells it
TripleOf(entry) ==
    entry.direction \o "|" \o ToString(entry.score) \o "|" \o entry.reason[1]

\* C11 (as claimed): at a tick an entry is appended iff the direction is not NO
\* TRADE and the triple (direction, score, regime) differs from the last
\* recorded one; no two adjacent entries of the journal carry the same triple.
C11_AppendedIffNewTriple ==
    /\ [][Ticked =>
            (signalJournal' # signalJournal <=>
                /\ analyticsView'.present
                /\ analyticsView'.direction # "NO TRADE"
                /\ JournalKey(analyticsView') # lastJournalKeyRef)]_vars
    /\ [](\A i \in 1..(Len(signalJournal) - 1) :
            TripleOf(signalJournal[i]) # TripleOf(signalJournal[i + 1]))

\* the journal after `count` entries were put in front of `prev`: the oldest
\* entries of prev, at its end, are the ones that leave
KeptBehind(next, prev, count) ==
    /\ Len(next) = (IF Len(prev) + count > MAX_JOURNAL_ROWS
                    THEN MAX_JOURNAL_ROWS ELSE Len(prev) + count)
    /\ SubSeq(next, count + 1, Len(next)) = FirstN(MAX_JOURNAL_ROWS - count, prev)
    /\ \A i \in 1..count : i <= Len(next) => next[i].at = clock'

\* C12: the journal never holds more than 14 (here MAX_JOURNAL_ROWS) entries,
\* is ordered newest first, holds BULLISH and BEARISH entries only, and an
\* entry appended to a full journal drops exactly the oldest one (the analytics
\* are computed up to twice per response, so one step appends up to two).
C12_JournalBoundedNewestFirst ==
    /\ [](/\ Len(signalJournal) <= MAX_JOURNAL_ROWS
          /\ \A i \in 1..Len(signalJournal) :
                signalJournal[i].direction \in {"BULLISH", "BEARISH"}
          /\ \A i \in 1..Len(signalJournal) : \A j \in i..Len(signalJournal) :
                signalJournal[i].at >= signalJournal[j].at)
    /\ [][signalJournal' # signalJournal =>
            \E count \in 1..2 : KeptBehind(signalJournal', signalJournal, count)]_vars

\* a full journal whose head is newer than its last entry and of the other
\* direction
C12_Witness ==
    /\ Len(signalJournal) = MAX_JOURNAL_ROWS
    /\ signalJournal[1].at > signalJournal[MAX_JOURNAL_ROWS].at
    /\ signalJournal[1].direction # signalJournal[MAX_JOURNAL_ROWS].direction

\* ---- The entry window and the strike plan ----

\* the checklist of the entry window, read off the view
ChecklistComplete ==
    /\ analyticsView.entryReady
    /\ analyticsView.confirmed
    /\ ~analyticsView.trendConflict
    /\ analyticsView.regime # "Volatile/Choppy"

\* C21: the entry window is OPEN iff the session is the mid-session and the
\* checklist is complete, CAUTION iff mid-session with an incomplete checklist
\* or late session with a complete one, AVOID in every other case; OPEN implies
\* confirmed
C21_EntryWindowRule ==
    analyticsView.present =>
      LET status == analyticsView.entryWindowStatus
          mid == analyticsView.sessionName = "Trend Window"
          late == analyticsView.sessionName = "Late Session"
          caution == (mid /\ ~ChecklistComplete) \/ (late /\ ChecklistComplete)
      IN  /\ status \in {"OPEN", "CAUTION", "AVOID"}
          /\ status = "OPEN" <=> (mid /\ ChecklistComplete)
          /\ status = "CAUTION" <=> caution
          /\ status = "AVOID" <=> ~(mid /\ ChecklistComplete) /\ ~caution
          /\ status = "OPEN" => analyticsView.confirmed

\* the late session with a complete checklist
C21_Witness ==
    /\ analyticsView.present
    /\ analyticsView.sessionName = "Late Session"
    /\ ChecklistComplete
    /\ analyticsView.entryWindowStatus = "CAUTION"

\* the window is open
C21_WitnessOpen ==
    analyticsView.present /\ analyticsView.entryWindowStatus = "OPEN"

\* the opening band with a complete checklist
C21_WitnessOpening ==
    /\ analyticsView.present
    /\ analyticsView.sessionName = "Opening Drive"
    /\ ChecklistComplete
    /\ analyticsView.entryWindowStatus = "AVOID"

\* the plan of the view is the put side
PutSide ==
    /\ analyticsView.sellStrikePlan.strategy = "BULL PUT SPREAD"
    /\ analyticsView.sellStrikePlan.side = "PE SELL"
    /\ analyticsView.sellStrikePlan.hedgeSide = "PE BUY HEDGE"

\* the plan of the view is the call side
CallSide ==
    /\ analyticsView.sellStrikePlan.strategy = "BEAR CALL SPREAD"
    /\ analyticsView.sellStrikePlan.side = "CE SELL"
    /\ analyticsView.sellStrikePlan.hedgeSide = "CE BUY HEDGE"

\* C22: the view carries a sell-strike plan iff confirmed is true and the
\* underlying price is known; a BULLISH direction yields a put-side plan and a
\* BEARISH direction a call-side plan
C22_PlanIffConfirmedAndKnown ==
    analyticsView.present =>
      /\ analyticsView.sellStrikePlan.present
            <=> (analyticsView.confirmed /\ data.underlying # Null)
      /\ analyticsView.sellStrikePlan.present =>
            /\ analyticsView.direction = "BULLISH" => PutSide
            /\ analyticsView.direction = "BEARISH" => CallSide

\* a confirmed view with a plan while the state holds no underlying price
C22_StalePlan ==
    /\ analyticsView.present
    /\ analyticsView.confirmed
    /\ analyticsView.sellStrikePlan.present
    /\ data.underlying = Null

\* a confirmed view without a plan while the state holds an underlying price
C22_MissingPlan ==
    /\ analyticsView.present
    /\ analyticsView.confirmed
    /\ ~analyticsView.sellStrikePlan.present
    /\ data.underlying # Null

\* C23: when a plan is produced, for BULLISH the sell strike is the largest
\* multiple of the step 50 that is <= spot - 200 and the hedge strike is the sell
\* strike - 200; for BEARISH the sell strike is the smallest multiple of the step
\* that is >= spot + 200 and the hedge strike is the sell strike + 200; both
\* strikes are multiples of the step and the sell strike is at least 200 points
\* out of the money
C23_StrikeRule ==
    analyticsView.sellStrikePlan.present =>
      LET strike == analyticsView.sellStrikePlan.strike
          hedgeStrike == analyticsView.sellStrikePlan.hedgeStrike
          spot == data.underlying
          Step50 == 50 * 100
          Points200 == 200 * 100
      IN  /\ strike % Step50 = 0
          /\ hedgeStrike % Step50 = 0
          /\ analyticsView.direction \in {"BULLISH", "BEARISH"}
          /\ analyticsView.direction = "BULLISH" =>
                /\ strike <= spot - Points200
                /\ strike + Step50 > spot - Points200
                /\ hedgeStrike = strike - Points200
                /\ spot - strike >= Points200
          /\ analyticsView.direction = "BEARISH" =>
                /\ strike >= spot + Points200
                /\ strike - Step50 < spot + Points200
                /\ hedgeStrike = strike + Points200
                /\ strike - spot >= Points200

\* a put-side plan for a spot between two multiples of the step: 25123.45
\* gives the strikes 24900 and 24700
C23_Witness ==
    /\ analyticsView.sellStrikePlan.present
    /\ analyticsView.direction = "BULLISH"
    /\ data.underlying = 2512345
    /\ analyticsView.sellStrikePlan.strike = 2490000
    /\ analyticsView.sellStrikePlan.hedgeStrike = 2470000

\* a call-side plan for a spot one hundredth above a multiple of the step:
\* 25000.01 gives the strikes 25250 and 25450
C23_WitnessBearish ==
    /\ analyticsView.sellStrikePlan.present
    /\ analyticsView.direction = "BEARISH"
    /\ data.underlying = 2500001
    /\ analyticsView.sellStrikePlan.strike = 2525000
    /\ analyticsView.sellStrikePlan.hedgeStrike = 2545000

\* ---- The trend classifier ----

\* the values of the samples of a series, oldest first
ValuesOf(series) == [i \in 1..Len(series) |-> series[i].value]

\* the smallest and the largest value of a sequence
Trough(vals) == CHOOSE v \in {vals[i] : i \in 1..Len(vals)} :
                    \A i \in 1..Len(vals) : v <= vals[i]
Peak(vals) == CHOOSE v \in {vals[i] : i \in 1..Len(vals)} :
                  \A i \in 1..Len(vals) : v >= vals[i]

\* the tone the extreme zones ask for, "" outside of them
ExtremeZoneTone(vals) ==
    LET latest == vals[Len(vals)]
    IN  IF latest <= 75
        THEN (IF latest - Trough(vals) >= 10 THEN "bullish" ELSE "bearish")
        ELSE IF latest >= 125
        THEN (IF latest - Peak(vals) <= -10 THEN "bearish" ELSE "bullish")
        ELSE ""

\* a window of at least two samples whose latest value lies in an extreme zone
\* has the tone of the zone
ExtremeZoneRule(series, label) ==
    Len(series) >= 2 /\ ExtremeZoneTone(ValuesOf(series)) # ""
        => buildTrendView(series, label).tone = ExtremeZoneTone(ValuesOf(series))

\* C24: in the extreme zones of either window (at least 2 samples): latest <=
\* 0.75 is bullish when latest - trough >= 0.10 and bearish otherwise; latest >=
\* 1.25 is bearish when latest - peak <= -0.10 and bullish otherwise; the tone
\* is never neutral there and depends on nothing else
C24_ExtremeZones ==
    /\ ExtremeZoneRule(pcr3mSeries, "3m")
    /\ ExtremeZoneRule(pcr5mSeries, "5m")

\* a render found the 3m window at 0.4 after 0.5 and 0.3 (a falling slope and
\* a rise of 0.10 from the trough: bullish) and the 5m window at 1.45 after
\* 1.3 and 1.5 (a rising slope and a drop of 0.05 from the peak: bullish)
C24_Witness ==
    /\ analyticsView.present
    /\ ValuesOf(pcr3mSeries) = <<50, 30, 40>>
    /\ buildTrendView(pcr3mSeries, "3m").tone = "bullish"
    /\ ValuesOf(pcr5mSeries) = <<130, 150, 145>>
    /\ buildTrendView(pcr5mSeries, "5m").tone = "bullish"

\* the examples of the claim: 0.5 after 0.3 is bullish, 1.5 after 1.8 bearish
C24_WitnessExamples ==
    /\ analyticsView.present
    /\ ValuesOf(pcr3mSeries) = <<30, 50>>
    /\ buildTrendView(pcr3mSeries, "3m").tone = "bullish"
    /\ ValuesOf(pcr5mSeries) = <<180, 150>>
    /\ buildTrendView(pcr5mSeries, "5m").tone = "bearish"

\* the number of steps of a sequence that are at least 0.01 up, and down
UpStepsOf(vals) == Cardinality({i \in 2..Len(vals) : vals[i] - vals[i - 1] >= 1})
DownStepsOf(vals) == Cardinality({i \in 2..Len(vals) : vals[i] - vals[i - 1] <= -1})

\* the tone of the mid zone for the momentum threshold T, first match wins
MidZoneTone(vals, T) ==
    LET slope == vals[Len(vals)] - vals[1]
    IN  IF Abs(slope) < 6 THEN "neutral"
        ELSE IF slope >= T /\ UpStepsOf(vals) >= Len(vals) - 2 THEN "bullish"
        ELSE IF slope <= -T /\ DownStepsOf(vals) >= Len(vals) - 2 THEN "bearish"
        ELSE "neutral"

\* a window of at least two samples whose latest value lies between the zones
\* has the tone of the mid zone
MidZoneRule(series, label, T) ==
    LET vals == ValuesOf(series)
    IN  Len(series) >= 2 /\ vals[Len(vals)] > 75 /\ vals[Len(vals)] < 125
            => buildTrendView(series, label).tone = MidZoneTone(vals, T)

\* C25: in the mid zone (0.75 < latest < 1.25, at least 2 samples), first match
\* wins: |slope| < 0.06 is neutral; else slope >= T and upSteps >= length - 2
\* is bullish; else slope <= -T and downSteps >= length - 2 is bearish; else
\* neutral; slope = latest - oldest, steps count at 0.01, T = 0.08 for the short
\* window and 0.10 for the long one
C25_MidZone ==
    /\ MidZoneRule(pcr3mSeries, "3m", 8)
    /\ MidZoneRule(pcr5mSeries, "5m", 10)

\* a render found both windows at 1.08 after 1: the short one is bullish, the
\* long one neutral
C25_Witness ==
    /\ analyticsView.present
    /\ ValuesOf(pcr3mSeries) = <<100, 108>>
    /\ buildTrendView(pcr3mSeries, "3m").tone = "bullish"
    /\ ValuesOf(pcr5mSeries) = <<100, 108>>
    /\ buildTrendView(pcr5mSeries, "5m").tone = "neutral"

\* a slope of 0.15 with one step up of three is neutral, with two it is bullish
C25_WitnessSteps ==
    /\ analyticsView.present
    /\ ValuesOf(pcr3mSeries) = <<100, 90, 85, 115>>
    /\ buildTrendView(pcr3mSeries, "3m").tone = "neutral"
    /\ ValuesOf(pcr5mSeries) = <<100, 90, 95, 115>>
    /\ buildTrendView(pcr5mSeries, "5m").tone = "bullish"

\* the scenario: the 3-minute series 0.60, 0.68, 0.74, 0.80, the 5-minute series
\* 0.60, 0.80, a latest record with ratio 0.80 and a neutral OI flow, no
\* build-up and no price-vs-average text, the session of multiplier 1.0 and a
\* history whose regime is not Volatile/Choppy; the render has acted
RiseScenario ==
    /\ analyticsView.present
    /\ ValuesOf(pcr3mSeries) = <<60, 68, 74, 80>>
    /\ ValuesOf(pcr5mSeries) = <<60, 80>>
    /\ toNumeric(LatestRow[TREND_SOURCE]) = 80
    /\ NeutralFlow
    /\ data.buildUpSignal = ""
    /\ data.vwapSignal = ""
    /\ MultiplierOf(analyticsView.sessionName) = 100
    /\ ExpectedRegime # "Volatile/Choppy"

\* C26: in the scenario both windows are bullish and not in conflict, the score
\* is at least 62, the direction is BULLISH and confirmed is true
C26_RiseScenario ==
    RiseScenario =>
      /\ Tone3 = "bullish"
      /\ Tone5 = "bullish"
      /\ ~analyticsView.trendConflict
      /\ analyticsView.score >= 62
      /\ analyticsView.direction = "BULLISH"
      /\ analyticsView.confirmed

\* the scenario was rendered: score 72
C26_Witness ==
    RiseScenario /\ analyticsView.score = 72

\* ---- Failures of the polls ----

\* a step in which a fetch of the PCR poll ends in a failure
LoadFailed == Len(pcrInflight') < Len(pcrInflight) /\ error' # ""

\* a step in which a fetch of the option-chain poll ends in a failure
TickFailed == Len(chainInflight') < Len(chainInflight) /\ lastTick' = "failed"

\* C27: a failed acquisition changes none of history buffer, sample series,
\* last-sampled markers, journal, highlight map, previous chain and last good
\* snapshot; the timer stays armed (with no request in flight the next poll can
\* start); a successful poll after a failure is applied as any other and
\* clears the error flag
C27_FailedPollIsNoOp ==
    /\ [][LoadFailed \/ TickFailed =>
            /\ UNCHANGED <<historyRows, pcr3mSeries, pcr5mSeries, last3mSampleAtRef,
                           last5mSampleAtRef, signalJournal, lastJournalKeyRef>>
            /\ UNCHANGED <<highlights, prevChainData>>
            /\ UNCHANGED <<data, chainData, analyticsView>>]_vars
    /\ [](pcrInflight = <<>> => ENABLED (\E next \in FailureResponses : LoadStart(1, next)))
    /\ [](chainInflight = <<>> => ENABLED TickStart(1))
    /\ [][error # "" /\ Ticked =>
            /\ error' = ""
            /\ data'.loaded
            /\ \E records \in {pcrInflight[1].next.records} :
                   historyRows' = mergeIncomingRows(historyRows, records, clock')]_vars

\* both polls have failed after they had succeeded: the error flag is up, the
\* buffer, the samples, the snapshot and the highlight map are kept
C27_Witness ==
    /\ error # ""
    /\ Len(historyRows) > 0
    /\ Len(pcr3mSeries) > 0
    /\ data.loaded
    /\ lastTick = "failed"
    /\ Len(prevChainData) > 0
    /\ highlights # <<>>

\* the error flag never goes down (refuted: a successful poll clears it)
C27_ErrorStays == [][error # "" => error' # ""]_vars

\* ---- The live price and the teardown ----

\* a live-price fetch is started in this step
FetchStarted == Len(ltpInflight') > Len(ltpInflight)

\* C29: however loadLtp is invoked, two live-price fetches are never started
\* less than the 10 seconds of the guard apart
C29_OneFetchPerGuardInterval ==
    [][FetchStarted /\ ltpFetchedAt # Null => ltpClock - ltpFetchedAt >= 10000]_vars

\* while lastLtpAt holds the time of the last fetch, the guard holds
C29_GuardAfterSuccess ==
    [][FetchStarted /\ ltpFetchedAt # Null /\ lastLtpAt = ltpFetchedAt
          => ltpClock - ltpFetchedAt >= 10000]_vars

\* the state of PcrTableClient and of OptionChainClient
PcrState == <<data, historyRows, error, pcr3mSeries, pcr5mSeries, last3mSampleAtRef,
              last5mSampleAtRef, analyticsView, signalJournal, lastJournalKeyRef>>
ChainState == <<chainData, prevChainData, highlights, activeExpiry, liveData, lastLtpAt>>

\* no fetch of the PCR poll, and none of the two polls of the option chain, is
\* started in this step
NoLoadStarted == Len(pcrInflight') <= Len(pcrInflight)
NoChainFetchStarted ==
    /\ Len(chainInflight') <= Len(chainInflight)
    /\ Len(ltpInflight') <= Len(ltpInflight)

\* a fetch that was in flight when its poll was torn down gets its response in
\* this step
CancelledTickSettles ==
    \E i \in 1..Len(chainInflight) :
        chainInflight[i].cancelled /\ chainInflight' = RemoveAt(chainInflight, i)
RestartedLtpSettles ==
    \E i \in 1..Len(ltpInflight) :
        ltpInflight[i].restarted /\ ltpInflight' = RemoveAt(ltpInflight, i)

\* once a component is unmounted none of its timers fires and no response
\* changes its state
C28_UnmountIsFinal ==
    [][/\ ~pcrMounted => NoLoadStarted /\ UNCHANGED PcrState
       /\ ~chainMounted => NoChainFetchStarted /\ UNCHANGED ChainState]_vars

\* a tick that was in flight when the option-chain poll was torn down changes
\* no state
C28_CancelledTickIsDropped ==
    [][CancelledTickSettles => UNCHANGED ChainState]_vars

\* C28: after a teardown (unmount, or restart of the option-chain poll for
\* another expiry) no timer of the torn-down poll fires again, and a fetch of
\* load, tick or loadLtp that was in flight at the teardown changes no state
\* when its response arrives
C28_TeardownIsFinal ==
    [][/\ ~pcrMounted => NoLoadStarted /\ UNCHANGED PcrState
       /\ ~chainMounted => NoChainFetchStarted /\ UNCHANGED ChainState
       /\ CancelledTickSettles => UNCHANGED ChainState
       /\ RestartedLtpSettles => UNCHANGED ChainState]_vars

\* responses arrive after the unmount of both components
C28_WitnessUnmounted ==
    /\ ~pcrMounted
    /\ ~chainMounted
    /\ pcrInflight = <<>>
    /\ chainInflight = <<>>
    /\ ltpInflight = <<>>
    /\ lastLtpAt = 0

\* ---- The step of the window sampler ----

\* the series after a sample of the tail record was appended
WithTailSample(series) ==
    LET tail == historyRows'[Len(historyRows')]
        sample == [at |-> tail.seenAt, value |-> toNumeric(tail.row[TREND_SOURCE])]
        all == Append(series, sample)
    IN  IF Len(all) > MAX_PCR_SAMPLES
        THEN SubSeq(all, Len(all) - MAX_PCR_SAMPLES + 1, Len(all)) ELSE all

\* the step of one window when a response is applied and the tail record of the
\* buffer has a numeric ratio
WindowStep(series, seriesNext, marker, markerNext, periodMs) ==
    LET tail == historyRows'[Len(historyRows')]
        due == marker = Null \/ tail.seenAt - marker >= periodMs
    IN  /\ due => seriesNext = WithTailSample(series) /\ markerNext = tail.seenAt
        /\ ~due => seriesNext = series /\ markerNext = marker

\* the marker of a window that has samples is the time of its newest sample
MarkerIsNewest(series, marker) ==
    Len(series) > 0 => marker = series[Len(series)].at

\* C30: when a response is applied and the tail record of the buffer has a
\* numeric ratio, each window appends the sample (tail timestamp, tail ratio)
\* iff it has no sample yet or the tail timestamp is at least its period after
\* its marker; the marker becomes the tail timestamp exactly when a sample is
\* appended; the marker of a non-empty series is the time of its newest sample
C30_SamplerStep ==
    /\ [][Ticked /\ Len(historyRows') > 0
            /\ toNumeric(historyRows'[Len(historyRows')].row[TREND_SOURCE]) # Null
          => /\ WindowStep(pcr3mSeries, pcr3mSeries', last3mSampleAtRef,
                           last3mSampleAtRef', THREE_MIN_MS)
             /\ WindowStep(pcr5mSeries, pcr5mSeries', last5mSampleAtRef,
                           last5mSampleAtRef', FIVE_MIN_MS)]_vars
    /\ [](MarkerIsNewest(pcr3mSeries, last3mSampleAtRef)
            /\ MarkerIsNewest(pcr5mSeries, last5mSampleAtRef))

\* the last step sampled for the 3m window and not for the 5m window
C30_Witness ==
    /\ Len(pcr3mSeries) = 2
    /\ Len(pcr5mSeries) = 1
    /\ last3mSampleAtRef = pcr3mSeries[2].at
    /\ last5mSampleAtRef = pcr5mSeries[1].at
    /\ last3mSampleAtRef - last5mSampleAtRef = THREE_MIN_MS

----------------------------------------------------------------------------
(* Re-delivery and the frame of an append.                                 *)

\* every record of the batch has a key that is in the buffer
AllKnown(records) ==
    /\ Len(records) > 0
    /\ \A k \in 1..Len(records) : buildRowKey(records[k]) \in KeysOf(historyRows)

\* C31: applying a batch whose records all have keys already in the buffer
\* leaves the buffer as it is (keys, rows, arrival timestamps, order) whatever
\* the clock reads, and takes no window sample: both series and both markers
\* stay as they are.
C31_RedeliveryIdempotent ==
    [][\A i \in 1..Len(pcrInflight) :
          (LoadApplied(i) /\ AllKnown(pcrInflight[i].next.records))
              => /\ historyRows' = historyRows
                 /\ pcr3mSeries' = pcr3mSeries
                 /\ pcr5mSeries' = pcr5mSeries
                 /\ last3mSampleAtRef' = last3mSampleAtRef
                 /\ last5mSampleAtRef' = last5mSampleAtRef]_vars

\* the only record arrived at 0 and was sampled once; a response (one record
\* each) was applied eight minutes later, more than either period, and left
\* one record and one sample per window
C31_Witness ==
    /\ data.loaded
    /\ clock = THREE_MIN_MS + FIVE_MIN_MS
    /\ Len(historyRows) = 1
    /\ historyRows[1].seenAt = 0
    /\ Len(pcr3mSeries) = 1
    /\ Len(pcr5mSeries) = 1
    /\ pcr3mSeries[1].at = 0

\* the rows the last MAX_ROWS records of a batch add: the keys not in the
\* buffer, each once, in the batch's order
AcceptedOf(records) == Accepted(KeysOf(historyRows), LastN(MAX_ROWS, records))

\* next is a suffix of (prev followed by rows with the keys acc): the rows of
\* prev it keeps are unchanged and in their order
SuffixOfAppend(next, prev, acc) ==
    LET total == Len(prev) + Len(acc)
    IN  /\ Len(next) <= total
        /\ \A j \in 1..Len(next) :
              LET p == total - Len(next) + j
              IN  IF p <= Len(prev) THEN next[j] = prev[p]
                  ELSE /\ next[j].key = acc[p - Len(prev)]
                       /\ buildRowKey(next[j].row) = next[j].key

\* C32: an append changes no key, row or arrival timestamp of a stored record
\* and never reorders the stored records: the new buffer is a suffix of the
\* old buffer followed by the accepted records; an empty batch leaves the
\* buffer as it is.
C32_AppendFrame ==
    [][\A i \in 1..Len(pcrInflight) :
          LoadApplied(i) =>
             /\ SuffixOfAppend(historyRows', historyRows,
                               AcceptedOf(pcrInflight[i].next.records))
             /\ Len(pcrInflight[i].next.records) = 0 => historyRows' = historyRows]_vars

\* the older record arrived second in a batch when the clock read 0, the newer
\* one first in a batch when it read 1: the record that arrived with the older
\* one was evicted, the kept one is as it was
C32_Witness ==
    /\ Len(historyRows) = HISTORY_MAX_ROWS
    /\ historyRows[1].seenAt = 1
    /\ historyRows[2].seenAt = 1
    /\ clock = 1
    /\ pcrInflight = <<>>

----------------------------------------------------------------------------
(* The pending windows.                                                    *)

\* the view of a window is the pending one
IsPendingView(series, label) ==
    /\ buildTrendView(series, label).tone = "neutral"
    /\ buildTrendView(series, label).title = UpperLabel(label) \o " TREND PENDING"

\* a window's second sample is taken in this step, from a record that arrived
\* at least the period after the first sample
SecondSampleAfterPeriod(series, seriesNext, periodMs) ==
    (Len(series) = 1 /\ seriesNext # series) =>
        /\ Len(historyRows') > 0
        /\ seriesNext = Append(series, seriesNext[Len(seriesNext)])
        /\ seriesNext[2].at = historyRows'[Len(historyRows')].seenAt
        /\ seriesNext[2].at - series[1].at >= periodMs

\* the score of the state with no adjustment for aligned windows
UnalignedScore ==
    LET ratio == toNumeric(LatestRow[TREND_SOURCE])
        z == IF ratio = Null THEN 0
             ELSE IF ratio >= 125 THEN 10 ELSE IF ratio <= 75 THEN -10 ELSE 0
        b == (IF ContainsWord(data.buildUpSignal, "bullish") THEN 8 ELSE 0)
             + (IF ContainsWord(data.buildUpSignal, "bearish") THEN -8 ELSE 0)
        v == (IF ContainsWord(data.vwapSignal, "above") THEN 8 ELSE 0)
             + (IF ContainsWord(data.vwapSignal, "below") THEN -8 ELSE 0)
        raw == (50 + z + OiFlowAdjustment(PeLeg, CeLeg) + b + v)
                   * MultiplierOf(analyticsView.sessionName)
        clamped == IF raw < 0 THEN 0 ELSE IF raw > 10000 THEN 10000 ELSE raw
    IN  IF clamped % 100 >= 50 THEN clamped \div 100 + 1 ELSE clamped \div 100

SomeWindowPending == Len(pcr3mSeries) < 2 \/ Len(pcr5mSeries) < 2

\* C33: the view of a window is neutral with the title "<window> TREND
\* PENDING" iff its series has fewer than 2 samples; a window with one sample
\* gets its second only from a record that arrived at least the window's
\* period after the first; while a window is pending the score carries no
\* +22 / -22 for aligned windows and confirmed is false.
C33_PendingRule ==
    /\ [](/\ IsPendingView(pcr3mSeries, "3m") <=> Len(pcr3mSeries) < 2
          /\ IsPendingView(pcr5mSeries, "5m") <=> Len(pcr5mSeries) < 2)
    /\ []((analyticsView.present /\ SomeWindowPending) =>
              /\ ~analyticsView.confirmed
              /\ analyticsView.score = UnalignedScore)
    /\ [][/\ SecondSampleAfterPeriod(pcr3mSeries, pcr3mSeries', THREE_MIN_MS)
          /\ SecondSampleAfterPeriod(pcr5mSeries, pcr5mSeries', FIVE_MIN_MS)]_vars

\* three minutes after the first sample the 3m window is bullish and the 5m
\* window still pending: the two texts make the call BULLISH and the entry
\* ready, and the call is not confirmed
C33_Witness ==
    /\ Len(pcr3mSeries) = 2
    /\ Len(pcr5mSeries) = 1
    /\ clock = THREE_MIN_MS
    /\ analyticsView.present
    /\ analyticsView.direction = "BULLISH"
    /\ analyticsView.entryReady
    /\ ~analyticsView.confirmed

----------------------------------------------------------------------------
(* The field lookup of the option chain.                                   *)

\* the strings that are numbers written out
NumericStrings == {"1", "0.6", "0.60", "0.80", "-100", "50"}

\* a value is a number or a numeric string
IsNumeric(v) ==
    \/ v.type = "number"
    \/ v.type = "string" /\ v.str \in NumericStrings

\* the number a numeric value stands for
NumberOf(v) == IF v.type = "number" THEN v.num ELSE NumberOfString(v.str)

\* the lists of candidate names the component looks up in a leg
CandidateLists ==
    { <<"oi", "open_interest">>, <<"prev_oi", "previous_oi">>,
      <<"oi_change", "change_in_oi", "oi_change_percentage">>,
      <<"ltp", "last_price", "last_traded_price">> }

\* the value of the first candidate, in the order of the list, that the
\* record has as a number or a numeric string; unknown when there is none or
\* the record is absent
FirstNumeric(obj, keys) ==
    IF obj \in {Undefined, JsNull} THEN Null
    ELSE LET valid == {i \in 1..Len(keys) : keys[i] \in DOMAIN obj /\ IsNumeric(obj[keys[i]])}
         IN  IF valid = {} THEN Null
             ELSE NumberOf(obj[keys[CHOOSE i \in valid : \A j \in valid : i <= j]])

\* the legs of the chain shown and of the chain the next tick diffs against
LegsInState ==
    {chainData[i].call : i \in 1..Len(chainData)}
        \cup {chainData[i].put : i \in 1..Len(chainData)}
        \cup {prevChainData[i].call : i \in 1..Len(prevChainData)}

\* C34: pickNumber returns the value of the first candidate field, in the
\* order of the list, whose value is a number or a numeric string, and unknown
\* when no candidate qualifies or the record is absent; empty and non-numeric
\* strings, null and booleans are skipped.
C34_PickNumberRule ==
    \A obj \in LegsInState, keys \in CandidateLists :
        pickNumber(obj, keys) = FirstNumeric(obj, keys)

\* a tick was applied whose call leg has an empty string before a number; the
\* lookup skipped the string, and the tick marked the leg rising against the
\* leg of the chain before
C34_Witness ==
    /\ lastTick = "applied"
    /\ chainData[1].call = LegBlankFirst
    /\ pickNumber(chainData[1].call, <<"oi_change", "change_in_oi", "oi_change_percentage">>) = 5000
    /\ MarkOf(nextCallHighlights, StrikeKey(StrikeLow)) = "highlight-green"
    /\ MarkOf(LegMap(highlights, "call"), StrikeKey(StrikeLow)) = "highlight-green"

----------------------------------------------------------------------------
(* Records whose ratio is no number.                                       *)

\* the ratio of the latest record is missing or is no numeric representation
MalformedRatio(rows) ==
    /\ Len(rows) > 0
    /\ ~IsNumeric(rows[Len(rows)].row[TREND_SOURCE])

\* the records of the buffer whose ratio is a number or a numeric string
NumericRows(rows) == {i \in 1..Len(rows) : IsNumeric(rows[i].row[TREND_SOURCE])}

\* the score of the state with no adjustment for the zone of the ratio
ScoreWithoutZone ==
    LET a == IF Tone3 = "bullish" /\ Tone5 = "bullish" THEN 22
             ELSE IF Tone3 = "bearish" /\ Tone5 = "bearish" THEN -22 ELSE 0
        b == (IF ContainsWord(data.buildUpSignal, "bullish") THEN 8 ELSE 0)
             + (IF ContainsWord(data.buildUpSignal, "bearish") THEN -8 ELSE 0)
        v == (IF ContainsWord(data.vwapSignal, "above") THEN 8 ELSE 0)
             + (IF ContainsWord(data.vwapSignal, "below") THEN -8 ELSE 0)
        raw == (50 + a + OiFlowAdjustment(PeLeg, CeLeg) + b + v)
                   * MultiplierOf(analyticsView.sessionName)
        clamped == IF raw < 0 THEN 0 ELSE IF raw > 10000 THEN 10000 ELSE raw
    IN  IF clamped % 100 >= 50 THEN clamped \div 100 + 1 ELSE clamped \div 100

\* C35 (as claimed): a ratio that is missing, empty, blank or not a numeric
\* representation is unknown, never a number: a response that leaves such a
\* record at the tail of the buffer takes no window sample, the record is no
\* regime point, and the score carries no zone adjustment.
C35_MalformedRatioIsUnknown ==
    /\ [][\A i \in 1..Len(pcrInflight) :
            (LoadApplied(i) /\ MalformedRatio(historyRows')) =>
                /\ pcr3mSeries' = pcr3mSeries
                /\ pcr5mSeries' = pcr5mSeries]_vars
    /\ [](Len(pcrPoints(historyRows)) = Cardinality(NumericRows(historyRows)))
    /\ []((analyticsView.present /\ MalformedRatio(historyRows)) =>
              analyticsView.score = ScoreWithoutZone)

\* the parts of C35 for a ratio that is missing or a text: no sample is taken
\* and the score carries no zone adjustment
NotAString(rows) ==
    /\ Len(rows) > 0
    /\ rows[Len(rows)].row[TREND_SOURCE] \in {Undefined, Str("abc")}

C35_MissingOrTextIsUnknown ==
    /\ [][\A i \in 1..Len(pcrInflight) :
            (LoadApplied(i) /\ NotAString(historyRows')) =>
                /\ pcr3mSeries' = pcr3mSeries
                /\ pcr5mSeries' = pcr5mSeries]_vars
    /\ []((analyticsView.present /\ NotAString(historyRows)) =>
              analyticsView.score = ScoreWithoutZone)

\* a record with an empty ratio was sampled as 0
C35_EmptySampledAsZero ==
    /\ Len(pcr3mSeries) > 0
    /\ pcr3mSeries[Len(pcr3mSeries)].value = 0
    /\ historyRows[Len(historyRows)].row[TREND_SOURCE] \in {Str(""), Str(" ")}
    /\ analyticsView.score = 40

----------------------------------------------------------------------------
(* An unknown OI change in the highlight engine.                           *)

\* the OI change of a leg of the row of a strike
OiChangeAt(chain, strike, leg) == oiChange(getMarket(Leg(RowAt(chain, strike), leg)))

\* C36 (as claimed): a leg whose OI change is unknown in the previous or in
\* the current snapshot of its strike gets no mark from the tick.
C36_UnknownIsNotMarked ==
    [][TickApplied =>
         \A leg \in Legs, strike \in {StrikeLow, StrikeHigh} :
            (/\ HasStrike(prevChainData, strike)
             /\ HasStrike(prevChainData', strike)
             /\ \/ OiChangeAt(prevChainData, strike, leg) = Null
                \/ OiChangeAt(prevChainData', strike, leg) = Null)
                => MarkOf(NewMarks(leg)', StrikeKey(strike)) = ""]_vars

\* the part of C36 that holds: a leg whose OI change is unknown in both
\* snapshots gets no mark
C36_UnknownInBothIsNotMarked ==
    [][TickApplied =>
         \A leg \in Legs, strike \in {StrikeLow, StrikeHigh} :
            (/\ HasStrike(prevChainData, strike)
             /\ HasStrike(prevChainData', strike)
             /\ OiChangeAt(prevChainData, strike, leg) = Null
             /\ OiChangeAt(prevChainData', strike, leg) = Null)
                => MarkOf(NewMarks(leg)', StrikeKey(strike)) = ""]_vars

\* the call of the lower strike carries no OI change and is marked
C36_UnknownMarked ==
    /\ lastTick = "applied"
    /\ HasStrike(chainData, StrikeLow)
    /\ OiChangeAt(chainData, StrikeLow, "call") = Null
    /\ MarkOf(nextCallHighlights, StrikeKey(StrikeLow)) = "highlight-red"

----------------------------------------------------------------------------
(* The classifier of src/frontend/src/app/PcrTableClient.tsx.              *)

\* the values of a window of the buffer
WindowOfState(requestedWindowMs) == WindowValues(withPcr(historyRows), requestedWindowMs)

\* the tone the zones ask for: bullish for a latest ratio <= 0.75 that is at
\* least 0.10 above the window's trough, bearish for a latest ratio >= 1.25
\* that is at least 0.10 below the window's peak
ZoneCorrect(vals, tone) ==
    LET latest == vals[Len(vals)]
    IN  /\ (latest <= 75 /\ latest - SeqMin(vals) >= 10) => tone = "bullish"
        /\ (latest >= 125 /\ latest - SeqMax(vals) <= -10) => tone = "bearish"

\* C37 (as claimed): in both windows of the older classifier a latest ratio
\* <= 0.75 at least 0.10 above the window's trough gives the tone bullish, and
\* a latest ratio >= 1.25 at least 0.10 below the window's peak gives bearish.
C37_LegacyZoneCorrect ==
    (legacyTrend.present /\ Len(withPcr(historyRows)) >= 2) =>
        /\ ZoneCorrect(WindowOfState(THREE_MIN_MS), legacyTrend.tone3m)
        /\ ZoneCorrect(WindowOfState(FIVE_MIN_MS), legacyTrend.tone5m)

\* the ratios 0.5, 0.3, 0.5: the 3m window is bullish, the 5m window, whose
\* trough is 0.3 as well, is bearish
C37_LegacyLowZoneBearish ==
    /\ legacyTrend.present
    /\ WindowOfState(FIVE_MIN_MS) = <<50, 30, 50>>
    /\ legacyTrend.tone3m = "bullish"
    /\ legacyTrend.tone5m = "bearish"


----------------------------------------------------------------------------
(* The entry and the exit of a call exclude each other.                    *)

\* the short window's tone is the opposite of the direction of the view
ShortWindowOpposes ==
    \/ analyticsView.direction = "BULLISH" /\ Tone3 = "bearish"
    \/ analyticsView.direction = "BEARISH" /\ Tone3 = "bullish"

\* C38: in every view entryReady and exitWarning are never both true; a
\* BULLISH view has a score of 62 or more and a BEARISH one of 38 or less, so
\* that exitWarning holds iff the short window's tone is the opposite of the
\* direction, whatever the score.
C38_EntryExcludesExit ==
    analyticsView.present =>
        /\ ~(analyticsView.entryReady /\ analyticsView.exitWarning)
        /\ (analyticsView.direction = "BULLISH" => analyticsView.score >= 62)
        /\ (analyticsView.direction = "BEARISH" => analyticsView.score <= 38)
        /\ (analyticsView.exitWarning <=> ShortWindowOpposes)

\* a BULLISH call below 70 with the short window on its side: ready to enter,
\* no warning, though the score is nearer to 50 than a strong call
C38_Witness ==
    /\ analyticsView.present
    /\ analyticsView.direction = "BULLISH"
    /\ analyticsView.score < 70
    /\ Tone3 = "bullish"
    /\ analyticsView.entryReady
    /\ ~analyticsView.exitWarning


----------------------------------------------------------------------------
(* The journal across a NO TRADE interval.                                 *)

\* the view of this state is a call whose triple is the last one logged
ShowsLoggedTriple(view, lastKey) ==
    view.present /\ view.direction # "NO TRADE" /\ JournalKey(view) = lastKey

\* the triple that was logged last: the one of the head of the journal
LastLogged == IF signalJournal = <<>> THEN "" ELSE TripleOf(signalJournal[1])

\* a tick that leaves a NO TRADE view for a call on the triple logged last
BackOnLoggedTriple ==
    /\ Ticked
    /\ analyticsView.present
    /\ analyticsView.direction = "NO TRADE"
    /\ ShowsLoggedTriple(analyticsView', lastJournalKeyRef)

----------------------------------------------------------------------------
(* Neutral inputs in every session.                                        *)

\* the ratio of the latest record is unknown (no number, no numeric string)
\* or lies between the two zones
RatioMidOrUnknown ==
    \/ ~IsNumeric(LatestRow[TREND_SOURCE])
    \/ /\ NumberOf(LatestRow[TREND_SOURCE]) > 75
       /\ NumberOf(LatestRow[TREND_SOURCE]) < 125

\* no input of the score points up or down
AllNeutral ==
    /\ ~(Tone3 = Tone5 /\ Tone3 \in {"bullish", "bearish"})
    /\ NeutralFlow
    /\ ~ContainsWord(data.buildUpSignal, "bullish")
    /\ ~ContainsWord(data.buildUpSignal, "bearish")
    /\ ~ContainsWord(data.vwapSignal, "above")
    /\ ~ContainsWord(data.vwapSignal, "below")

\* a view that makes no call: NO TRADE, nothing in the journal, no plan
MakesNoCall ==
    /\ analyticsView.direction = "NO TRADE"
    /\ signalJournal = <<>>
    /\ ~analyticsView.sellStrikePlan.present

\* C40 (as claimed): with all directional inputs neutral (no window agreement,
\* latest ratio between the zones or unknown, no OI imbalance, none of the four
\* words in the two texts) the direction is NO TRADE in every session: the
\* session multiplier alone makes no BULLISH or BEARISH call, no journal entry
\* and no strike plan.
C40_NeutralIsNoTrade ==
    (analyticsView.present /\ AllNeutral /\ RatioMidOrUnknown) => MakesNoCall

\* the same for a ratio that is missing, a text that is no number, or a number
\* between the zones
C40_NeutralIsNoTradeIfNotBlank ==
    (/\ analyticsView.present
     /\ AllNeutral
     /\ RatioMidOrUnknown
     /\ LatestRow[TREND_SOURCE] \notin {Str(""), Str(" ")}) => MakesNoCall

\* outside the sessions a latest record with an empty ratio is called BEARISH
\* and logged
C40_BlankRatioCalledBearish ==
    /\ analyticsView.present
    /\ AllNeutral
    /\ LatestRow[TREND_SOURCE] = Str("")
    /\ analyticsView.sessionName = "Off Session"
    /\ analyticsView.direction = "BEARISH"
    /\ analyticsView.score = 34
    /\ Len(signalJournal) = 1

============================================================================
